---- MODULE Spec2Model ----
(***************************************************************************)
(* neoghq: repository / worktree lifecycle manager.                        *)
(*                                                                         *)
(* Strings are sequences of one-character strings, so that the parsers     *)
(* (strip_suffix, starts_with, split, Url::parse) and PathBuf::join are    *)
(* computed the way the code computes them.                                *)
(*                                                                         *)
(* SpecParse  the Identity Parser as pure functions of a reference string  *)
(* SpecPath   path composition of the create and clone flows               *)
(* Spec       the create and clone flows, step by step, on a disk with     *)
(*            directories and git repositories; the version-control engine *)
(*            may fail at every call                                       *)
(***************************************************************************)
EXTENDS Integers, Sequences, FiniteSets, TLC

VARIABLES
    pin,        \* the reference string handed to a parser
    pfn,        \* which parser was applied to pin ("none" before the call)
    pout,       \* what the parser returned
    rin,        \* the inputs handed to path resolution
    rfn,        \* which flow's path resolution was applied ("none" before)
    rout,       \* the paths it produced
    dirs,       \* the directories on disk, each the sequence of its components
    files,      \* the non-directory entries on disk
    repos,      \* the git repositories on disk: directory -> [refs, wts]
    noread,     \* the directories whose contents cannot be read (read_dir on
                \* them fails: permission denied)
    pc,         \* per invocation: the point the command has reached
    call,       \* per invocation: the command and its arguments
    loc,        \* per invocation: the paths the command computed
    res,        \* per invocation: "none", "ok" or "err"
    ops,        \* per invocation: the mutating calls made so far, in order
    rerun,      \* per invocation: whether it repeats the invocation before it,
                \* and the disk as that one left it
    out,        \* per invocation: the lines a read-only command printed and
                \* the kind of error it returned ("none" when it returned Ok)
    env,        \* the process environment Config::load reads
    cfg,        \* what Config::load returned
    race        \* history: which invocations found bare_path absent while
                \* another one was about to create it, and whether two that
                \* did so have both run the creation

parseVars == <<pin, pfn, pout>>

pathVars == <<rin, rfn, rout>>

fsVars == <<dirs, files, repos, noread>>

cfgVars == <<env, cfg>>

invVars == <<pc, call, loc, res, ops, rerun, out, race>>

vars == <<pin, pfn, pout, rin, rfn, rout, dirs, files, repos, noread, pc, call, loc, res, ops, rerun, out, env, cfg, race>>

(***************************************************************************)
(* String literals of the source.                                          *)
(***************************************************************************)
S_https     == <<"h", "t", "t", "p", "s", ":", "/", "/">>
S_scheme    == <<":", "/", "/">>
S_git_at    == <<"g", "i", "t", "@">>
S_dot_git   == <<".", "g", "i", "t">>
S_github    == <<"g", "i", "t", "h", "u", "b", ".", "c", "o", "m">>
S_main      == <<"m", "a", "i", "n">>
S_slash     == <<"/">>
S_gitlab    == <<"g", "i", "t", "l", "a", "b", ".", "c", "o", "m">>
S_bitbucket == <<"b", "i", "t", "b", "u", "c", "k", "e", "t", ".", "o", "r", "g">>
S_dev       == <<"d", "e", "v">>
S_nested    == <<"f", "/", "t">>
S_abs       == <<"/", "x">>

(***************************************************************************)
(* str primitives of the Rust standard library.                            *)
(***************************************************************************)
StartsWith(s, p) == Len(s) >= Len(p) /\ SubSeq(s, 1, Len(p)) = p

EndsWith(s, p) == Len(s) >= Len(p) /\ SubSeq(s, Len(s) - Len(p) + 1, Len(s)) = p

Contains(s, p) == \E i \in 1..(Len(s) - Len(p) + 1) : SubSeq(s, i, i + Len(p) - 1) = p

\* s.strip_suffix(p).unwrap_or(s)
StripSuffixOr(s, p) == IF EndsWith(s, p) THEN SubSeq(s, 1, Len(s) - Len(p)) ELSE s

\* s.strip_prefix(p).unwrap_or(s)
StripPrefixOr(s, p) == IF StartsWith(s, p) THEN SubSeq(s, Len(p) + 1, Len(s)) ELSE s

\* index of the first occurrence of character c in s, 0 when there is none
FirstIndex(s, c) ==
    IF \E i \in 1..Len(s) : s[i] = c
    THEN CHOOSE i \in 1..Len(s) : s[i] = c /\ \A j \in 1..(i - 1) : s[j] # c
    ELSE 0

\* index of the last occurrence of character c in s, 0 when there is none
LastIndex(s, c) ==
    IF \E i \in 1..Len(s) : s[i] = c
    THEN CHOOSE i \in 1..Len(s) : s[i] = c /\ \A j \in (i + 1)..Len(s) : s[j] # c
    ELSE 0

\* s.split(c).collect(): always at least one piece, empty pieces are kept
RECURSIVE Split(_, _)
Split(s, c) ==
    LET i == FirstIndex(s, c)
    IN  IF i = 0 THEN <<s>>
        ELSE <<SubSeq(s, 1, i - 1)>> \o Split(SubSeq(s, i + 1, Len(s)), c)

\* pieces.join(c)
RECURSIVE Join(_, _)
Join(pieces, c) ==
    IF Len(pieces) = 0 THEN <<>>
    ELSE IF Len(pieces) = 1 THEN pieces[1]
    ELSE pieces[1] \o <<c>> \o Join(Tail(pieces), c)

\* ASCII lower-casing of one character
LowerChar(c) ==
    CASE c = "A" -> "a" [] c = "B" -> "b" [] c = "C" -> "c" [] c = "D" -> "d"
      [] c = "E" -> "e" [] c = "F" -> "f" [] c = "G" -> "g" [] c = "H" -> "h"
      [] c = "I" -> "i" [] c = "J" -> "j" [] c = "K" -> "k" [] c = "L" -> "l"
      [] c = "M" -> "m" [] c = "N" -> "n" [] c = "O" -> "o" [] c = "P" -> "p"
      [] c = "Q" -> "q" [] c = "R" -> "r" [] c = "S" -> "s" [] c = "T" -> "t"
      [] c = "U" -> "u" [] c = "V" -> "v" [] c = "W" -> "w" [] c = "X" -> "x"
      [] c = "Y" -> "y" [] c = "Z" -> "z" [] OTHER -> c

ToLower(s) == [i \in 1..Len(s) |-> LowerChar(s[i])]

(***************************************************************************)
(* Results of the parsers: Result<(String, String, String)>.               *)
(***************************************************************************)
Ok(h, o, n) == [ok |-> TRUE, host |-> h, owner |-> o, name |-> n]

Err == [ok |-> FALSE, host |-> <<>>, owner |-> <<>>, name |-> <<>>]

NotCalled == [ok |-> FALSE, host |-> <<"?">>, owner |-> <<"?">>, name |-> <<"?">>]

ParseIdle == pin = <<>> /\ pfn = "none" /\ pout = NotCalled

(***************************************************************************)
(* url::Url::parse, for the inputs parse_repository_url hands it: strings  *)
(* that start with "https://".  https is a special scheme: every '/' after *)
(* the scheme is skipped; the authority runs to the next '/'; userinfo is  *)
(* what precedes the last '@'; a port follows the first ':' and must be    *)
(* decimal; an empty host is an error; the host is lower-cased; an empty   *)
(* path is "/".  Characters that the url crate would percent-encode or     *)
(* treat as query/fragment delimiters, and "." / ".." path segments, are   *)
(* outside the alphabet of the inputs drawn below.                         *)
(***************************************************************************)
Digits == {"0", "1", "2", "3", "4", "5", "6", "7", "8", "9"}

\* s without its leading run of '/'
RECURSIVE SkipSlashes(_)
SkipSlashes(s) ==
    IF Len(s) > 0 /\ s[1] = "/" THEN SkipSlashes(Tail(s)) ELSE s

UrlParse(s) ==
    LET afterScheme == SkipSlashes(SubSeq(s, 7, Len(s)))
        slash       == FirstIndex(afterScheme, "/")
        authority   == IF slash = 0 THEN afterScheme
                       ELSE SubSeq(afterScheme, 1, slash - 1)
        rawPath     == IF slash = 0 THEN S_slash
                       ELSE SubSeq(afterScheme, slash, Len(afterScheme))
        at          == LastIndex(authority, "@")
        hostPort    == SubSeq(authority, at + 1, Len(authority))
        colon       == FirstIndex(hostPort, ":")
        rawHost     == IF colon = 0 THEN hostPort ELSE SubSeq(hostPort, 1, colon - 1)
        port        == IF colon = 0 THEN <<>>
                       ELSE SubSeq(hostPort, colon + 1, Len(hostPort))
    IN  IF rawHost = <<>> \/ \E i \in 1..Len(port) : port[i] \notin Digits
        THEN [ok |-> FALSE, host |-> <<>>, path |-> <<>>]
        ELSE [ok |-> TRUE, host |-> ToLower(rawHost), path |-> rawPath]

(***************************************************************************)
(* Identity Parser.                                                        *)
(***************************************************************************)
\* parse_repo_name without the check for empty segments
parse_repo_name_NoEmptyCheck(repo) ==
    LET parts == Split(repo, "/")
    IN  IF Len(parts) # 2 THEN Err
        ELSE Ok(S_github, parts[1], parts[2])

\* create.rs parse_repo_name: the short owner/repo form, host defaulted
parse_repo_name(repo) ==
    LET parts == Split(repo, "/")
    IN  IF Len(parts) # 2 THEN Err
        ELSE IF parts[1] = <<>> \/ parts[2] = <<>> THEN Err
        ELSE Ok(S_github, parts[1], parts[2])

\* switch.rs parse_repo_name: the same checks, returns (owner, repo) only
switch_parse_repo_name(repo) ==
    LET parts == Split(repo, "/")
    IN  IF Len(parts) # 2 THEN Err
        ELSE IF parts[1] = <<>> \/ parts[2] = <<>> THEN Err
        ELSE Ok(<<>>, parts[1], parts[2])

\* the "https://" arm of parse_repository_url
ParseHttps(url) ==
    LET u == UrlParse(url)
        path == StripPrefixOr(u.path, S_slash)
        path_parts == Split(path, "/")
    IN  IF ~u.ok THEN Err
        ELSE IF Len(path_parts) < 2 THEN Err       \* path_parts.get(1) is None
        ELSE Ok(u.host, path_parts[1], path_parts[2])

\* the "git@" arm of parse_repository_url
ParseSsh(url) ==
    LET url_without_prefix == SubSeq(url, Len(S_git_at) + 1, Len(url))
        parts == Split(url_without_prefix, ":")
    IN  IF Len(parts) < 2 THEN Err                 \* parts.get(1) is None
        ELSE LET owner_and_repo == Split(parts[2], "/")
             IN  IF Len(owner_and_repo) < 2 THEN Err   \* owner_and_repo.get(1) is None
                 ELSE Ok(parts[1], owner_and_repo[1], owner_and_repo[2])

\* parse_repository_url that forgets to strip the ".git" suffix
parse_repository_url_NoStrip(input) ==
    IF StartsWith(input, S_https) THEN ParseHttps(input)
    ELSE IF StartsWith(input, S_git_at) THEN ParseSsh(input)
    ELSE Err

\* create.rs and get.rs parse_repository_url (the two copies are the same code)
parse_repository_url(input) ==
    LET url == StripSuffixOr(input, S_dot_git)
    IN  IF StartsWith(url, S_https) THEN ParseHttps(url)
        ELSE IF StartsWith(url, S_git_at) THEN ParseSsh(url)
        ELSE Err

\* execute_create_command: which parser the create flow applies to repo_input
create_parse(repo_input) ==
    IF Contains(repo_input, S_scheme) \/ StartsWith(repo_input, S_git_at)
    THEN parse_repository_url(repo_input)
    ELSE parse_repo_name(repo_input)

(***************************************************************************)
(* Path Resolver.  A path is the string a PathBuf holds.                   *)
(***************************************************************************)
\* Option<String>
None == [some |-> FALSE, val |-> <<>>]

Some(x) == [some |-> TRUE, val |-> x]

\* PathBuf::join: an absolute argument replaces the path, otherwise it is
\* appended after a separator (none is added to a path that ends in one)
PathJoin(p, x) ==
    IF StartsWith(x, S_slash) THEN x
    ELSE IF p = <<>> \/ EndsWith(p, S_slash) THEN p \o x
    ELSE p \o S_slash \o x

\* Path::components of an absolute path: the names between separators, with
\* empty names and "." dropped.  Two paths name the same file when their
\* components are equal (Path's equality).
Components(p) ==
    SelectSeq(Split(p, "/"), LAMBDA c : c # <<>> /\ c # <<".">>)

\* get.rs resolve_repository_path: format!("{}/{}/{}/{}/{}")
resolve_repository_path(root, host, owner, repo, branch) ==
    root \o S_slash \o host \o S_slash \o owner \o S_slash \o repo \o S_slash \o branch

\* worktree.unwrap_or_else(|| "main")
BranchOrMain(worktree) == IF worktree.some THEN worktree.val ELSE S_main

\* create_paths with owner and repository name joined in the wrong order
create_paths_Swapped(root, host, owner, repo, worktree) ==
    LET repo_dir == PathJoin(PathJoin(PathJoin(root, host), repo), owner)
        branch_name == BranchOrMain(worktree)
    IN  [repo_dir |-> repo_dir,
         branch_name |-> branch_name,
         bare_repo_path |-> PathJoin(repo_dir, S_dot_git),
         worktree_path |-> PathJoin(repo_dir, branch_name)]

\* execute_create_command, lines 163-170: the paths of the create flow
create_paths(root, host, owner, repo, worktree) ==
    LET repo_dir == PathJoin(PathJoin(PathJoin(root, host), owner), repo)
        branch_name == BranchOrMain(worktree)
    IN  [repo_dir |-> repo_dir,
         branch_name |-> branch_name,
         bare_repo_path |-> PathJoin(repo_dir, S_dot_git),
         worktree_path |-> PathJoin(repo_dir, branch_name)]

\* execute_get_command, lines 678-687: the paths of the clone flow
get_paths(root, host, owner, repo, branch) ==
    LET branch_name == BranchOrMain(branch)
        repo_dir == root \o S_slash \o host \o S_slash \o owner \o S_slash \o repo
    IN  [repo_dir |-> repo_dir,
         branch_name |-> branch_name,
         bare_repo_path |-> PathJoin(repo_dir, S_dot_git),
         worktree_path |-> resolve_repository_path(root, host, owner, repo, branch_name)]

NoPaths == [repo_dir |-> <<>>, branch_name |-> <<>>, bare_repo_path |-> <<>>,
            worktree_path |-> <<>>]

NoResolveInput == [host |-> <<>>, owner |-> <<>>, repo |-> <<>>, root |-> <<>>,
                   worktree |-> None]

PathIdle == rin = NoResolveInput /\ rfn = "none" /\ rout = NoPaths

(***************************************************************************)
(* The disk.  A directory or file is named by the components of its path;  *)
(* <<>> is the filesystem root, which always exists.                       *)
(***************************************************************************)
S_master == <<"m", "a", "s", "t", "e", "r">>

\* k and every directory above it
Ancestors(k) == {SubSeq(k, 1, i) : i \in 0..Len(k)}

\* x is k or lies below it
IsUnder(k, x) == Len(x) >= Len(k) /\ SubSeq(x, 1, Len(k)) = k

\* Path::parent
ParentOf(k) == IF Len(k) = 0 THEN k ELSE SubSeq(k, 1, Len(k) - 1)

\* a Path::exists that never finds anything
PathExists_Never(d, f, p) == FALSE

\* Path::exists
PathExists(d, f, p) == Components(p) \in d \cup f

\* fs::create_dir_all(k) can succeed: nothing on the way is a file
CanMkdirAll(f, k) == Ancestors(k) \cap f = {}

\* fs::remove_dir_all(k): k and everything below it goes, repositories included
RemoveAllDirs(d, k) == {x \in d : ~IsUnder(k, x)}

RemoveAllRepos(r, k) == [x \in {y \in DOMAIN r : ~IsUnder(k, y)} |-> r[x]]

\* r with the repository at k set to v
WithRepo(r, k, v) == [x \in DOMAIN r \cup {k} |-> IF x = k THEN v ELSE r[x]]

\* the commit create_bare_repository writes (create.rs 102-113): no parents,
\* the tree an empty treebuilder wrote
InitialCommit == [parents |-> <<>>, tree |-> {}]

\* a commit fetched from a remote
RemoteCommit == [parents |-> <<"p">>, tree |-> {"f"}]

\* a repository: its branches, its worktrees, and the commit each branch
\* points at
EmptyRepo == [refs |-> {}, wts |-> {}, tip |-> <<>>]

\* the tips t with branch b pointing at commit c
WithTip(t, b, c) == [x \in DOMAIN t \cup {b} |-> IF x = b THEN c ELSE t[x]]

NoRepos == [x \in {} |-> EmptyRepo]

\* the outcome of a call that touches the disk
Outcome(ok, d, r) == [dirs |-> d, repos |-> r, ok |-> ok]

(***************************************************************************)
(* Bare Repository Store.                                                  *)
(***************************************************************************)
\* a local initialisation that writes no commit
create_bare_repository_NoCommit(d, f, r, path) ==
    LET k == Components(path)
        withParent == d \cup Ancestors(ParentOf(k))
        withBare == d \cup Ancestors(k)
        old == IF k \in DOMAIN r THEN r[k] ELSE EmptyRepo
    IN  IF ~CanMkdirAll(f, ParentOf(k)) THEN {Outcome(FALSE, d, r)}
        ELSE IF k \in f THEN {Outcome(FALSE, withParent, r)}
        ELSE {Outcome(FALSE, withParent, r),
              Outcome(TRUE, withBare, WithRepo(r, k, old))}

\* create.rs create_bare_repository(path): create_dir_all(parent), then
\* Repository::init_bare, then one parentless empty-tree commit on
\* refs/heads/main.  init_bare and the commit may fail; the commit must fail
\* when refs/heads/main already exists (a parentless commit cannot move it).
create_bare_repository(d, f, r, path) ==
    LET k == Components(path)
        withParent == d \cup Ancestors(ParentOf(k))
        withBare == d \cup Ancestors(k)
        old == IF k \in DOMAIN r THEN r[k] ELSE EmptyRepo
    IN  IF ~CanMkdirAll(f, ParentOf(k)) THEN {Outcome(FALSE, d, r)}
        ELSE IF k \in f THEN {Outcome(FALSE, withParent, r)}
        ELSE {Outcome(FALSE, withParent, r),
              Outcome(FALSE, withBare, WithRepo(r, k, old))}
             \cup (IF S_main \in old.refs THEN {}
                   ELSE {Outcome(TRUE, withBare,
                                 WithRepo(r, k, [old EXCEPT !.refs = @ \cup {S_main},
                                                       !.tip = WithTip(@, S_main, InitialCommit)]))})

\* the branch sets a remote may hold
RemoteRefs == {{S_main}, {S_master}}

\* a bare clone that leaves the directory it made behind when it fails
clone_repository_bare_NoCleanup(d, f, r, path) ==
    LET k == Components(path)
        withParent == d \cup Ancestors(ParentOf(k))
        withBare == d \cup Ancestors(k)
        emptyTarget == k \notin f /\ k \notin DOMAIN r /\ \A x \in d : IsUnder(k, x) => x = k
    IN  IF ~CanMkdirAll(f, ParentOf(k)) THEN {Outcome(FALSE, d, r)}
        ELSE {Outcome(FALSE, withParent, r)}
             \cup (IF emptyTarget
                   THEN {Outcome(FALSE, withBare, r)}
                        \cup {Outcome(TRUE, withBare, WithRepo(r, k, [refs |-> refs, wts |-> {},
                                                              tip |-> [x \in refs |-> RemoteCommit]])) :
                                refs \in RemoteRefs}
                   ELSE {})

\* get.rs clone_repository_bare(url, path): create_dir_all(parent), then a bare
\* clone.  The clone needs the target absent or an empty directory; a failed
\* clone removes what it created.
clone_repository_bare(d, f, r, path) ==
    LET k == Components(path)
        withParent == d \cup Ancestors(ParentOf(k))
        withBare == d \cup Ancestors(k)
        emptyTarget == k \notin f /\ k \notin DOMAIN r /\ \A x \in d : IsUnder(k, x) => x = k
    IN  IF ~CanMkdirAll(f, ParentOf(k)) THEN {Outcome(FALSE, d, r)}
        ELSE {Outcome(FALSE, withParent, r)}
             \cup (IF emptyTarget
                   THEN {Outcome(TRUE, withBare, WithRepo(r, k, [refs |-> refs, wts |-> {},
                                                              tip |-> [x \in refs |-> RemoteCommit]])) :
                            refs \in RemoteRefs}
                   ELSE {})

(***************************************************************************)
(* Worktree Manager.                                                       *)
(***************************************************************************)
\* a worktree_base that looks for main before it looks for the branch
worktree_base_MainFirst(refs, branch) ==
    IF S_main \in refs THEN "main"
    ELSE IF branch \in refs THEN "branch"
    ELSE "head"

\* create.rs create_worktree, lines 128-144: what the new worktree is based on
worktree_base(refs, branch) ==
    IF branch \in refs THEN "branch"
    ELSE IF S_main \in refs THEN "main"
    ELSE "head"

\* Repository::worktree(name, path, opts) on the repository at bk.  The engine
\* makes the worktree's directory, then sets up its reference and checks it
\* out.  It can succeed only when the path does not exist yet, no worktree of
\* that name is registered and the reference can be set up: a given reference
\* must not be checked out in another worktree; with no reference given the
\* engine creates the branch `name` from HEAD, so HEAD must resolve and no
\* branch `name` may exist yet.  It may fail for any other reason the engine
\* has, before it made the directory or after (it does not remove the
\* directory when a later step fails).
AddWorktree(d, f, r, bk, wk, name, base) ==
    LET repo == r[bk]
        canMkdir == /\ wk \notin d \cup f
                    /\ name \notin {w.name : w \in repo.wts}
        checkedOut == IF base = "main" THEN S_main ELSE name
        canAdd == /\ canMkdir
                  /\ base = "head" => (repo.refs # {} /\ name \notin repo.refs)
                  /\ base # "head" => checkedOut \notin {w.branch : w \in repo.wts}
        refs == IF base = "head" THEN repo.refs \cup {name} ELSE repo.refs
        \* the new branch points at the commit HEAD resolves to, the tip of
        \* one of the branches
        tips == IF base = "head"
                THEN {WithTip(repo.tip, name, repo.tip[h]) : h \in repo.refs}
                ELSE {repo.tip}
    IN  {Outcome(FALSE, d, r)}
        \cup (IF canMkdir THEN {Outcome(FALSE, d \cup Ancestors(wk), r)} ELSE {})
        \cup (IF canAdd
              THEN {Outcome(TRUE, d \cup Ancestors(wk),
                            WithRepo(r, bk, [refs |-> refs,
                                             wts |-> repo.wts \cup
                                                 {[name |-> name, branch |-> checkedOut]},
                                             tip |-> t])) : t \in tips}
              ELSE {})

\* create.rs create_worktree(bare_repo_path, worktree_path, branch)
create_worktree(d, f, r, bare_repo_path, worktree_path, branch) ==
    LET bk == Components(bare_repo_path)
        wk == Components(worktree_path)
        withParent == d \cup Ancestors(ParentOf(wk))
    IN  IF ~CanMkdirAll(f, ParentOf(wk)) THEN {Outcome(FALSE, d, r)}
        ELSE IF bk \notin DOMAIN r THEN {Outcome(FALSE, withParent, r)}
        ELSE AddWorktree(withParent, f, r, bk, wk, branch, worktree_base(r[bk].refs, branch))

\* get.rs create_worktree(bare_repo_path, worktree_path, branch): no reference
get_create_worktree(d, f, r, bare_repo_path, worktree_path, branch) ==
    LET bk == Components(bare_repo_path)
        wk == Components(worktree_path)
        withParent == d \cup Ancestors(ParentOf(wk))
    IN  IF ~CanMkdirAll(f, ParentOf(wk)) THEN {Outcome(FALSE, d, r)}
        ELSE IF bk \notin DOMAIN r THEN {Outcome(FALSE, withParent, r)}
        ELSE AddWorktree(withParent, f, r, bk, wk, branch, "head")

(***************************************************************************)
(* Configuration: Config::load (config.rs).  The environment is what       *)
(* std::env::var returns for each variable: None when it returns Err (the  *)
(* variable is unset), Some(value) when it returns Ok.                     *)
(***************************************************************************)
S_default_root == <<"~", "/", "s", "r", "c", "/", "r", "e", "p", "o", "s">>

S_tilde == <<"~">>

S_tilde_slash == <<"~", "/">>

\* str::replace(from, to) for a one-character pattern: every occurrence of
\* from is replaced, the text put in is not scanned again
RECURSIVE replace(_, _, _)
replace(s, from, to) ==
    IF s = <<>> THEN <<>>
    ELSE (IF <<Head(s)>> = from THEN to ELSE <<Head(s)>>) \o replace(Tail(s), from, to)

\* Result<Config>: Ok(Config::new(root))
Loaded(root) == [ok |-> TRUE, root |-> root]

\* Err("HOME environment variable is not set")
HomeNotSet == [ok |-> FALSE, root |-> <<>>]

NotLoaded == [ok |-> FALSE, root |-> <<"?">>]

NoEnv == [NEOGHQ_ROOT |-> None, HOME |-> None]

ConfigIdle == env = NoEnv /\ cfg = NotLoaded

\* env::var("NEOGHQ_ROOT").unwrap_or_else(|_| "~/src/repos")
configured_root(e) == IF e.NEOGHQ_ROOT.some THEN e.NEOGHQ_ROOT.val ELSE S_default_root

Config_load(e) ==
    LET root == configured_root(e)
    IN  IF StartsWith(root, S_tilde_slash)
        THEN IF e.HOME.some
             THEN Loaded(replace(root, S_tilde, e.HOME.val))
             ELSE HomeNotSet
        ELSE Loaded(root)

(***************************************************************************)
(* Reading the disk: Path::is_dir, fs::read_dir, Path::file_name.          *)
(***************************************************************************)
\* Path::is_dir
IsDir(d, p) == Components(p) \in d

\* Path::file_name of a path with at least one component
FileName(p) == LET k == Components(p) IN k[Len(k)]

\* fs::read_dir(p) on a directory: entry.path() of every entry, in no order
ReadDir(d, f, p) ==
    LET dir == Components(p)
    IN  {PathJoin(p, k[Len(k)]) :
            k \in {x \in d \cup f : x # <<>> /\ ParentOf(x) = dir}}

\* the entries of directory p that are directories
SubDirs(d, f, p) == {e \in ReadDir(d, f, p) : IsDir(d, e)}

\* Result<PathBuf>: the error is the lookup's own "not found" error or the
\* io::Error a failed read_dir returns
Found(p) == [ok |-> TRUE, path |-> p, err |-> "none"]

Fail(e) == [ok |-> FALSE, path |-> <<>>, err |-> e]

(***************************************************************************)
(* Repository and worktree lookup (switch.rs).                             *)
(***************************************************************************)
\* switch.rs 40: let hosts = ["github.com", "gitlab.com", "bitbucket.org"]
hosts == <<S_github, S_gitlab, S_bitbucket>>

\* host_path.join(owner).join(repo)
RepoUnder(host_path, owner, repo) == PathJoin(PathJoin(host_path, owner), repo)

\* find_repository_path probing gitlab.com before github.com
find_repository_path_GitlabFirst(d, f, root, owner, repo) ==
    LET order == <<S_gitlab, S_github, S_bitbucket>>
        probe(i) == RepoUnder(PathJoin(root, order[i]), owner, repo)
        hits == {i \in 1..Len(order) : PathExists(d, f, probe(i))}
        scanned == {x \in {RepoUnder(h, owner, repo) : h \in SubDirs(d, f, root)} :
                        PathExists(d, f, x)}
    IN  IF hits # {} THEN {Found(probe(CHOOSE i \in hits : \A j \in hits : i <= j))}
        ELSE IF ~PathExists(d, f, root) THEN {Fail("repository_not_found")}
        ELSE IF ~IsDir(d, root) THEN {Fail("io")}
        ELSE IF scanned # {} THEN {Found(x) : x \in scanned}
        ELSE {Fail("repository_not_found")}

\* switch.rs find_repository_path(root, owner, repo): the well-known hosts in
\* order, then every directory of root in the order read_dir yields them
find_repository_path(d, f, root, owner, repo) ==
    LET probe(i) == RepoUnder(PathJoin(root, hosts[i]), owner, repo)
        hits == {i \in 1..Len(hosts) : PathExists(d, f, probe(i))}
        scanned == {x \in {RepoUnder(h, owner, repo) : h \in SubDirs(d, f, root)} :
                        PathExists(d, f, x)}
    IN  IF hits # {} THEN {Found(probe(CHOOSE i \in hits : \A j \in hits : i <= j))}
        ELSE IF ~PathExists(d, f, root) THEN {Fail("repository_not_found")}
        ELSE IF ~IsDir(d, root) THEN {Fail("io")}
        ELSE IF scanned # {} THEN {Found(x) : x \in scanned}
        ELSE {Fail("repository_not_found")}

\* find_default_worktree that looks for master before main
find_default_worktree_MasterFirst(d, f, repo_path) ==
    LET main_path == PathJoin(repo_path, S_main)
        master_path == PathJoin(repo_path, S_master)
        others == {e \in SubDirs(d, f, repo_path) : FileName(e) # S_dot_git}
    IN  IF PathExists(d, f, master_path) /\ IsDir(d, master_path) THEN {Found(master_path)}
        ELSE IF PathExists(d, f, main_path) /\ IsDir(d, main_path) THEN {Found(main_path)}
        ELSE IF ~PathExists(d, f, repo_path) THEN {Fail("worktree_not_found")}
        ELSE IF ~IsDir(d, repo_path) THEN {Fail("io")}
        ELSE IF others # {} THEN {Found(e) : e \in others}
        ELSE {Fail("worktree_not_found")}

\* find_default_worktree whose last resort does not leave out .git
find_default_worktree_AnyDir(d, f, repo_path) ==
    LET main_path == PathJoin(repo_path, S_main)
        master_path == PathJoin(repo_path, S_master)
        others == SubDirs(d, f, repo_path)
    IN  IF PathExists(d, f, main_path) /\ IsDir(d, main_path) THEN {Found(main_path)}
        ELSE IF PathExists(d, f, master_path) /\ IsDir(d, master_path) THEN {Found(master_path)}
        ELSE IF ~PathExists(d, f, repo_path) THEN {Fail("worktree_not_found")}
        ELSE IF ~IsDir(d, repo_path) THEN {Fail("io")}
        ELSE IF others # {} THEN {Found(e) : e \in others}
        ELSE {Fail("worktree_not_found")}

\* switch.rs find_default_worktree(repo_path): main, else master, else the
\* first directory read_dir yields that is not named .git
find_default_worktree(d, f, repo_path) ==
    LET main_path == PathJoin(repo_path, S_main)
        master_path == PathJoin(repo_path, S_master)
        others == {e \in SubDirs(d, f, repo_path) : FileName(e) # S_dot_git}
    IN  IF PathExists(d, f, main_path) /\ IsDir(d, main_path) THEN {Found(main_path)}
        ELSE IF PathExists(d, f, master_path) /\ IsDir(d, master_path) THEN {Found(master_path)}
        ELSE IF ~PathExists(d, f, repo_path) THEN {Fail("worktree_not_found")}
        ELSE IF ~IsDir(d, repo_path) THEN {Fail("io")}
        ELSE IF others # {} THEN {Found(e) : e \in others}
        ELSE {Fail("worktree_not_found")}

\* what a switch returns: the repository it found and the worktree it chose
Switched(ok, err, repo_path, worktree_path) ==
    [ok |-> ok, worktree_path |-> worktree_path, err |-> err, repo_path |-> repo_path]

\* a switch that falls back to the default search when the named worktree
\* does not exist
execute_switch_command_FallsBack(d, f, root, repo, worktree) ==
    LET id == switch_parse_repo_name(repo)
    IN  IF ~id.ok THEN {Switched(FALSE, "parse", <<>>, <<>>)}
        ELSE UNION {
            IF ~r.ok THEN {Switched(FALSE, r.err, <<>>, <<>>)}
            ELSE IF worktree.some /\ PathExists(d, f, PathJoin(r.path, worktree.val))
            THEN {Switched(TRUE, "none", r.path, PathJoin(r.path, worktree.val))}
            ELSE {Switched(w.ok, w.err, r.path, w.path) :
                    w \in find_default_worktree(d, f, r.path)}
            : r \in find_repository_path(d, f, root, id.owner, id.name)}

\* switch.rs execute_switch_command(repo, worktree, config)
execute_switch_command(d, f, root, repo, worktree) ==
    LET id == switch_parse_repo_name(repo)
    IN  IF ~id.ok THEN {Switched(FALSE, "parse", <<>>, <<>>)}
        ELSE UNION {
            IF ~r.ok THEN {Switched(FALSE, r.err, <<>>, <<>>)}
            ELSE IF worktree.some
            THEN LET path == PathJoin(r.path, worktree.val)
                 IN  IF ~PathExists(d, f, path)
                     THEN {Switched(FALSE, "worktree_not_found", r.path, <<>>)}
                     ELSE {Switched(TRUE, "none", r.path, path)}
            ELSE {Switched(w.ok, w.err, r.path, w.path) :
                    w \in find_default_worktree(d, f, r.path)}
            : r \in find_repository_path(d, f, root, id.owner, id.name)}

(***************************************************************************)
(* Listing (repo/list.rs; commands/list.rs holds a copy of the worktree    *)
(* listing).  A listing returns Result<()> and prints lines on its way;    *)
(* read_dir yields the entries in no particular order, so a listing that   *)
(* fails may have printed the lines of any of the directories it could     *)
(* have visited before the one that failed.                                *)
(***************************************************************************)
\* Ok(()), with what was printed
Listed(lines) == [ok |-> TRUE, err |-> "none", lines |-> lines]

\* Err(e), with what was printed before the error
ListFailedAfter(e, lines) == [ok |-> FALSE, err |-> e, lines |-> lines]

ListFailed(e) == ListFailedAfter(e, {})

\* fs::read_dir(p)? fails: p is not a directory, or it cannot be read
ReadDirFails(d, u, p) == ~IsDir(d, p) \/ Components(p) \in u

\* a descent that goes on with the next entry when an entry's listing fails
Descend_Swallow(d, u, p, children) ==
    IF ReadDirFails(d, u, p) THEN {ListFailed("io")}
    ELSE {Listed(UNION {r.lines : r \in UNION children})}

\* the loop of list_repositories, list_host_repositories, list_worktrees,
\* list_host_worktrees and list_user_worktrees on directory p:
\*     for entry in fs::read_dir(p)? { if path.is_dir() { child(&path)?; } }
\* `children` holds the results of child on the directories in p.  The first
\* entry whose listing fails ends the loop with that error, after the
\* entries before it were listed.
Descend(d, u, p, children) ==
    IF ReadDirFails(d, u, p) THEN {ListFailed("io")}
    ELSE LET failing == {c \in children : \E r \in c : ~r.ok}
             printed(T) == UNION {r.lines : r \in UNION T}
         IN  IF failing = {} THEN {Listed(printed(children))}
             ELSE UNION {{ListFailedAfter(r.err, r.lines \cup printed(T)) :
                            r \in c, T \in SUBSET (children \ failing)} :
                         c \in failing}

\* list_user_repositories(user_path): prints every directory entry
list_user_repositories(d, f, u, user_path) ==
    IF ReadDirFails(d, u, user_path) THEN {ListFailed("io")}
    ELSE {Listed(SubDirs(d, f, user_path))}

\* list_host_repositories(host_path)
list_host_repositories(d, f, u, host_path) ==
    Descend(d, u, host_path, {list_user_repositories(d, f, u, e) : e \in SubDirs(d, f, host_path)})

\* a listing that reports a missing root as an error
list_repositories_MissingIsError(d, f, u, root) ==
    IF ~PathExists(d, f, root) THEN {ListFailed("io")}
    ELSE Descend(d, u, root, {list_host_repositories(d, f, u, e) : e \in SubDirs(d, f, root)})

\* list_repositories(root)
list_repositories(d, f, u, root) ==
    IF ~PathExists(d, f, root) THEN {Listed({})}
    ELSE Descend(d, u, root, {list_host_repositories(d, f, u, e) : e \in SubDirs(d, f, root)})

\* list_repo_worktrees(repo_path): prints every directory entry but .git
list_repo_worktrees(d, f, u, repo_path) ==
    IF ReadDirFails(d, u, repo_path) THEN {ListFailed("io")}
    ELSE {Listed({e \in SubDirs(d, f, repo_path) : FileName(e) # S_dot_git})}

\* list_user_worktrees(user_path)
list_user_worktrees(d, f, u, user_path) ==
    Descend(d, u, user_path, {list_repo_worktrees(d, f, u, e) : e \in SubDirs(d, f, user_path)})

\* list_host_worktrees(host_path)
list_host_worktrees(d, f, u, host_path) ==
    Descend(d, u, host_path, {list_user_worktrees(d, f, u, e) : e \in SubDirs(d, f, host_path)})

\* list_worktrees(root)
list_worktrees(d, f, u, root) ==
    IF ~PathExists(d, f, root) THEN {Listed({})}
    ELSE Descend(d, u, root, {list_host_worktrees(d, f, u, e) : e \in SubDirs(d, f, root)})

\* repo/list.rs execute_with_config(show_worktrees, config)
execute_list(d, f, u, root, show_worktrees) ==
    IF show_worktrees THEN list_worktrees(d, f, u, root)
    ELSE list_repositories(d, f, u, root)

(***************************************************************************)
(* The create flow (create.rs execute_create_command) and the clone flow   *)
(* (get.rs execute_get_command), one step per call that reads or changes   *)
(* the disk.  An invocation runs from "idle" to "done"; Finish returns it  *)
(* to "idle", Repeat starts the same command again with the same inputs.   *)
(***************************************************************************)
Procs == {1, 2}

\* invocations of the single-process specification
SeqProcs == {1}

\* config.root
Root == <<"/", "r">>

NoCall == [repo |-> <<>>, worktree |-> None, cmd |-> "none"]

NoRerun == [dirs |-> {}, repos |-> NoRepos, on |-> FALSE]

NoOut == [err |-> "none", lines |-> {}]

NoRace == [waiting |-> {}, both |-> FALSE]

FlowIdle ==
    /\ dirs = {<<>>}
    /\ files = {}
    /\ noread = {}
    /\ repos = NoRepos
    /\ pc = [p \in Procs |-> "idle"]
    /\ call = [p \in Procs |-> NoCall]
    /\ loc = [p \in Procs |-> NoPaths]
    /\ res = [p \in Procs |-> "none"]
    /\ ops = [p \in Procs |-> <<>>]
    /\ rerun = [p \in Procs |-> NoRerun]
    /\ out = [p \in Procs |-> NoOut]
    /\ race = NoRace

\* the identity the command parses from its reference
ParseFor(c) ==
    IF c.cmd = "create" THEN create_parse(c.repo) ELSE parse_repository_url(c.repo)

\* the paths the command computes from the identity
PathsFor(c, id) ==
    IF c.cmd = "create" THEN create_paths(Root, id.host, id.owner, id.name, c.worktree)
    ELSE get_paths(Root, id.host, id.owner, id.name, c.worktree)

\* a start that makes the root directory before it parses the reference
Begin_RootFirst(p, c, again) ==
    LET id == ParseFor(c)
    IN  /\ call' = [call EXCEPT ![p] = c]
        /\ ops' = [ops EXCEPT ![p] = <<>>]
        /\ rerun' = [rerun EXCEPT ![p] = again]
        /\ dirs' = dirs \cup Ancestors(Components(Root))
        /\ IF id.ok
           THEN /\ loc' = [loc EXCEPT ![p] = PathsFor(c, id)]
                /\ pc' = [pc EXCEPT ![p] = "check_bare"]
                /\ res' = [res EXCEPT ![p] = "none"]
           ELSE /\ loc' = [loc EXCEPT ![p] = NoPaths]
                /\ pc' = [pc EXCEPT ![p] = "done"]
                /\ res' = [res EXCEPT ![p] = "err"]
        /\ UNCHANGED <<parseVars, pathVars, cfgVars, files, repos, noread, out, race>>

\* lines 155-170 of create.rs, 676-687 of get.rs: parse, then compose the paths
Begin(p, c, again) ==
    LET id == ParseFor(c)
    IN  /\ call' = [call EXCEPT ![p] = c]
        /\ ops' = [ops EXCEPT ![p] = <<>>]
        /\ rerun' = [rerun EXCEPT ![p] = again]
        /\ IF id.ok
           THEN /\ loc' = [loc EXCEPT ![p] = PathsFor(c, id)]
                /\ pc' = [pc EXCEPT ![p] = "check_bare"]
                /\ res' = [res EXCEPT ![p] = "none"]
           ELSE /\ loc' = [loc EXCEPT ![p] = NoPaths]
                /\ pc' = [pc EXCEPT ![p] = "done"]
                /\ res' = [res EXCEPT ![p] = "err"]
        /\ UNCHANGED <<parseVars, pathVars, cfgVars, fsVars, out, race>>

CreateStart(p, repo, worktree) ==
    /\ pc[p] = "idle"
    /\ Begin(p, [repo |-> repo, worktree |-> worktree, cmd |-> "create"], NoRerun)

GetStart(p, url, branch) ==
    /\ pc[p] = "idle"
    /\ Begin(p, [repo |-> url, worktree |-> branch, cmd |-> "get"], NoRerun)

\* the same create or clone again, with identical inputs, right after it
\* succeeded
Repeat(p) ==
    /\ pc[p] = "done"
    /\ call[p].cmd \in {"create", "get"}
    /\ res[p] = "ok"
    /\ ~rerun[p].on
    /\ Begin(p, call[p], [dirs |-> dirs, repos |-> repos, on |-> TRUE])

\* the process exits
Finish(p) ==
    /\ pc[p] = "done"
    /\ pc' = [pc EXCEPT ![p] = "idle"]
    /\ call' = [call EXCEPT ![p] = NoCall]
    /\ loc' = [loc EXCEPT ![p] = NoPaths]
    /\ res' = [res EXCEPT ![p] = "none"]
    /\ ops' = [ops EXCEPT ![p] = <<>>]
    /\ rerun' = [rerun EXCEPT ![p] = NoRerun]
    /\ out' = [out EXCEPT ![p] = NoOut]
    /\ UNCHANGED <<parseVars, pathVars, cfgVars, fsVars, race>>

\* move to `next` without touching the disk
Goto(p, next) ==
    /\ pc' = [pc EXCEPT ![p] = next]
    /\ UNCHANGED <<parseVars, pathVars, cfgVars, fsVars, call, loc, res, ops, rerun, out, race>>

\* return from the command
Return(p, r) ==
    /\ pc' = [pc EXCEPT ![p] = "done"]
    /\ res' = [res EXCEPT ![p] = r]

\* the history after invocation p made the call `op`.  When the call is the
\* creation of bare_path, every other create of the same bare_path that is
\* about to create it too has found bare_path absent before this creation:
\* it is waiting.  When p itself was waiting, two invocations that both
\* found bare_path absent have now both run the creation.
Raced(p, op) ==
    IF op = "init_bare" /\ pc[p] = "make_bare"
    THEN [waiting |-> (race.waiting \ {p}) \cup
                        {q \in Procs \ {p} :
                            /\ pc[q] = "make_bare"
                            /\ call[q].cmd = "create"
                            /\ loc[q].bare_repo_path = loc[p].bare_repo_path},
          both |-> race.both \/ p \in race.waiting]
    ELSE race

\* a call `op` with outcome o: the disk becomes o's; on success go to `next`
\* (or return Ok when next is "done"), on failure go to `failed`
Apply(p, op, o, next, failed) ==
    /\ dirs' = o.dirs
    /\ repos' = o.repos
    /\ ops' = [ops EXCEPT ![p] = Append(@, op)]
    /\ LET to == IF o.ok THEN next ELSE failed
       IN  IF to = "done" THEN Return(p, IF o.ok THEN "ok" ELSE "err")
           ELSE pc' = [pc EXCEPT ![p] = to] /\ UNCHANGED res
    /\ UNCHANGED <<parseVars, pathVars, cfgVars, files, noread, call, loc, rerun, out>>
    /\ race' = Raced(p, op)

\* an ensure-bare step that creates the repository without looking
CheckBare_NoCheck(p) ==
    /\ pc[p] = "check_bare"
    /\ Goto(p, "make_bare")

\* create.rs 173, get.rs 690: if !bare_repo_path.exists()
CheckBare(p) ==
    /\ pc[p] = "check_bare"
    /\ IF PathExists(dirs, files, loc[p].bare_repo_path)
       THEN Goto(p, "check_wt")
       ELSE Goto(p, "make_bare")

\* a creation step that looks again and leaves an existing bare_path alone
MakeBare_LooksAgain(p) ==
    /\ pc[p] = "make_bare"
    /\ IF PathExists(dirs, files, loc[p].bare_repo_path)
       THEN Goto(p, "check_wt")
       ELSE IF call[p].cmd = "create"
       THEN \E o \in create_bare_repository(dirs, files, repos, loc[p].bare_repo_path) :
                Apply(p, "init_bare", o, "check_wt", "done")
       ELSE \E o \in clone_repository_bare(dirs, files, repos, loc[p].bare_repo_path) :
                Apply(p, "clone", o, "check_wt", "done")

\* create.rs 175-181: create_bare_repository; get.rs 692: clone_repository_bare
MakeBare(p) ==
    /\ pc[p] = "make_bare"
    /\ IF call[p].cmd = "create"
       THEN \E o \in create_bare_repository(dirs, files, repos, loc[p].bare_repo_path) :
                Apply(p, "init_bare", o, "check_wt", "done")
       ELSE \E o \in clone_repository_bare(dirs, files, repos, loc[p].bare_repo_path) :
                Apply(p, "clone", o, "check_wt", "done")

\* a worktree step that takes the worktree to be there without looking
CheckWorktree_NoCheck(p) ==
    /\ pc[p] = "check_wt"
    /\ Return(p, "ok")
    /\ UNCHANGED <<parseVars, pathVars, cfgVars, fsVars, call, loc, ops, rerun, out, race>>

\* create.rs 190, get.rs 696: if !worktree_path.exists()
CheckWorktree(p) ==
    /\ pc[p] = "check_wt"
    /\ IF PathExists(dirs, files, loc[p].worktree_path)
       THEN /\ Return(p, "ok")
            /\ UNCHANGED <<parseVars, pathVars, cfgVars, fsVars, call, loc, ops, rerun, out, race>>
       ELSE Goto(p, "make_wt")

\* a worktree step that sends a failed clone-flow attempt into recovery too
MakeWorktree_RecoverInClone(p) ==
    /\ pc[p] = "make_wt"
    /\ IF call[p].cmd = "create"
       THEN \E o \in create_worktree(dirs, files, repos, loc[p].bare_repo_path,
                                     loc[p].worktree_path, loc[p].branch_name) :
                Apply(p, "add_worktree", o, "done", "failed_wt")
       ELSE \E o \in get_create_worktree(dirs, files, repos, loc[p].bare_repo_path,
                                         loc[p].worktree_path, loc[p].branch_name) :
                Apply(p, "add_worktree", o, "done", "failed_wt")

\* create.rs 197, get.rs 701: create_worktree
MakeWorktree(p) ==
    /\ pc[p] = "make_wt"
    /\ IF call[p].cmd = "create"
       THEN \E o \in create_worktree(dirs, files, repos, loc[p].bare_repo_path,
                                     loc[p].worktree_path, loc[p].branch_name) :
                Apply(p, "add_worktree", o, "done", "failed_wt")
       ELSE \E o \in get_create_worktree(dirs, files, repos, loc[p].bare_repo_path,
                                         loc[p].worktree_path, loc[p].branch_name) :
                Apply(p, "add_worktree", o, "done", "done")

\* create.rs 200, 234-241: if bare_repo_path.exists() recover, else return Err
AfterWorktreeFailure(p) ==
    /\ pc[p] = "failed_wt"
    /\ IF PathExists(dirs, files, loc[p].bare_repo_path)
       THEN Goto(p, "rm_bare")
       ELSE /\ Return(p, "err")
            /\ UNCHANGED <<parseVars, pathVars, cfgVars, fsVars, call, loc, ops, rerun, out, race>>

\* fs::remove_dir_all(path): succeeds on a directory, or fails and removes nothing
remove_dir_all(d, f, r, path) ==
    LET k == Components(path)
    IN  {Outcome(FALSE, d, r)}
        \cup (IF k \in d THEN {Outcome(TRUE, RemoveAllDirs(d, k), RemoveAllRepos(r, k))}
              ELSE {})

\* create.rs 203-209: remove_dir_all(&bare_repo_path)
RemoveBare(p) ==
    /\ pc[p] = "rm_bare"
    /\ \E o \in remove_dir_all(dirs, files, repos, loc[p].bare_repo_path) :
            Apply(p, "remove_bare", o, "rm_wt", "done")

\* create.rs 210-218: if worktree_path.exists() remove_dir_all(&worktree_path)
RemoveWorktreeDir(p) ==
    /\ pc[p] = "rm_wt"
    /\ IF PathExists(dirs, files, loc[p].worktree_path)
       THEN \E o \in remove_dir_all(dirs, files, repos, loc[p].worktree_path) :
                Apply(p, "remove_worktree", o, "reinit", "done")
       ELSE Goto(p, "reinit")

\* a recreation whose failure is ignored: the retry follows in any case
RecreateBare_Ignored(p) ==
    /\ pc[p] = "reinit"
    /\ \E o \in create_bare_repository(dirs, files, repos, loc[p].bare_repo_path) :
            Apply(p, "init_bare", o, "retry_wt", "retry_wt")

\* create.rs 219-225: create_bare_repository again
RecreateBare(p) ==
    /\ pc[p] = "reinit"
    /\ \E o \in create_bare_repository(dirs, files, repos, loc[p].bare_repo_path) :
            Apply(p, "init_bare", o, "retry_wt", "done")

\* a retry that, when it fails, goes through the failure handling once more
RetryWorktree_Again(p) ==
    /\ pc[p] = "retry_wt"
    /\ \E o \in create_worktree(dirs, files, repos, loc[p].bare_repo_path,
                                loc[p].worktree_path, loc[p].branch_name) :
            Apply(p, "add_worktree", o, "done", "failed_wt")

\* create.rs 226-233: create_worktree again
RetryWorktree(p) ==
    /\ pc[p] = "retry_wt"
    /\ \E o \in create_worktree(dirs, files, repos, loc[p].bare_repo_path,
                                loc[p].worktree_path, loc[p].branch_name) :
            Apply(p, "add_worktree", o, "done", "done")

\* a read-only command that makes sure the root directory is there before it
\* looks into it
ReadOnly_MakesRoot(p, c, paths, ok, o) ==
    /\ pc[p] = "idle"
    /\ pc' = [pc EXCEPT ![p] = "done"]
    /\ call' = [call EXCEPT ![p] = c]
    /\ loc' = [loc EXCEPT ![p] = paths]
    /\ res' = [res EXCEPT ![p] = IF ok THEN "ok" ELSE "err"]
    /\ out' = [out EXCEPT ![p] = o]
    /\ dirs' = dirs \cup Ancestors(Components(Root))
    /\ UNCHANGED <<parseVars, pathVars, cfgVars, files, repos, noread, ops, rerun, race>>

\* a read-only command runs from "idle" to "done" in one step
ReadOnly(p, c, paths, ok, o) ==
    /\ pc[p] = "idle"
    /\ pc' = [pc EXCEPT ![p] = "done"]
    /\ call' = [call EXCEPT ![p] = c]
    /\ loc' = [loc EXCEPT ![p] = paths]
    /\ res' = [res EXCEPT ![p] = IF ok THEN "ok" ELSE "err"]
    /\ out' = [out EXCEPT ![p] = o]
    /\ UNCHANGED <<parseVars, pathVars, cfgVars, fsVars, ops, rerun, race>>

\* switch.rs execute(repo, worktree): prints the worktree path it resolved
SwitchCmd(p, repo, worktree) ==
    /\ pc[p] = "idle"
    /\ \E s \in execute_switch_command(dirs, files, Root, repo, worktree) :
            ReadOnly(p, [repo |-> repo, worktree |-> worktree, cmd |-> "switch"],
                 [repo_dir |-> s.repo_path, branch_name |-> worktree.val,
                  bare_repo_path |-> <<>>, worktree_path |-> s.worktree_path],
                 s.ok,
                 [err |-> s.err, lines |-> IF s.ok THEN {s.worktree_path} ELSE {}])

\* repo/list.rs execute(show_worktrees)
ListCmd(p, show_worktrees) ==
    /\ pc[p] = "idle"
    /\ \E l \in execute_list(dirs, files, noread, Root, show_worktrees) :
        ReadOnly(p, [repo |-> <<>>,
                     worktree |-> None, cmd |-> IF show_worktrees THEN "list_worktrees" ELSE "list"],
                 NoPaths, l.ok, [err |-> l.err, lines |-> l.lines])

\* what the commands are run on
ShortRef == <<"a", "/", "B", "c">>

UrlRef == S_https \o S_github \o <<"/", "a", "/", "B", "c">> \o S_dot_git

BadRef == <<"a">>

RepoInputs == {ShortRef, UrlRef, BadRef}

BranchArgs == {None, Some(S_dev), Some(S_dot_git), Some(S_nested), Some(S_abs)}

\* <root>/github.com/a/Bc, the directory both references resolve to
RepoDirKey == Components(Root) \o <<S_github, <<"a">>, <<"B", "c">>>>

\* the disks an invocation may find: nothing yet, a repository directory
\* holding an empty .git directory (no repository in it), or a directory /x
\* outside the root
InitDisks == {{<<>>}, Ancestors(RepoDirKey \o <<S_dot_git>>), Ancestors(Components(S_abs))}

Init ==
    /\ ParseIdle
    /\ PathIdle
    /\ ConfigIdle
    /\ dirs \in InitDisks
    /\ files = {}
    /\ noread = {}
    /\ repos = NoRepos
    /\ pc = [p \in Procs |-> "idle"]
    /\ call = [p \in Procs |-> NoCall]
    /\ loc = [p \in Procs |-> NoPaths]
    /\ res = [p \in Procs |-> "none"]
    /\ ops = [p \in Procs |-> <<>>]
    /\ rerun = [p \in Procs |-> NoRerun]
    /\ out = [p \in Procs |-> NoOut]
    /\ race = NoRace

Step(p) ==
    \/ \E repo \in RepoInputs, worktree \in BranchArgs : CreateStart(p, repo, worktree)
    \/ \E url \in RepoInputs, branch \in BranchArgs : GetStart(p, url, branch)
    \/ \E repo \in {ShortRef, BadRef}, worktree \in {None, Some(S_dev)} :
            SwitchCmd(p, repo, worktree)
    \/ \E show_worktrees \in BOOLEAN : ListCmd(p, show_worktrees)
    \/ Repeat(p)
    \/ Finish(p)
    \/ CheckBare(p)
    \/ MakeBare(p)
    \/ CheckWorktree(p)
    \/ MakeWorktree(p)
    \/ AfterWorktreeFailure(p)
    \/ RemoveBare(p)
    \/ RemoveWorktreeDir(p)
    \/ RecreateBare(p)
    \/ RetryWorktree(p)

Next == \E p \in SeqProcs : Step(p)

Spec == Init /\ [][Next]_vars

(***************************************************************************)
(* Reference strings the parsers are applied to: a prefix, a host part, a  *)
(* tail of '/'-joined segments after a '/' or ':' separator, and an        *)
(* optional ".git" suffix.  Every piece may be empty, so malformed         *)
(* references are drawn as well as well-formed ones.                       *)
(***************************************************************************)
MaxSegs == 3

Names == {<<"a">>, <<"B", "c">>}

Users == {S_git_at, <<"b", "o", "b", "@">>}

Prefixes == {S_https, <<"s", "s", "h", ":", "/", "/">>, <<>>} \cup Users

Suffixes == {<<>>, S_dot_git}

SegSeqs(n) == UNION {[1..k -> Names \cup {<<>>}] : k \in 1..n}

Tails == {<<>>} \cup {<<sep>> \o Join(segs, "/") : sep \in {"/", ":"}, segs \in SegSeqs(MaxSegs)}

ParseInputs ==
    {pre \o h \o t \o sfx :
        pre \in Prefixes, h \in Names \cup {<<>>}, t \in Tails, sfx \in Suffixes}

InitParse ==
    /\ pin \in ParseInputs
    /\ pfn = "none"
    /\ pout = NotCalled
    /\ PathIdle
    /\ ConfigIdle
    /\ FlowIdle

CallParseRepositoryUrl ==
    /\ pfn = "none"
    /\ pfn' = "parse_repository_url"
    /\ pout' = parse_repository_url(pin)
    /\ UNCHANGED <<pin, pathVars, cfgVars, fsVars, invVars>>

CallParseRepoName ==
    /\ pfn = "none"
    /\ pfn' = "parse_repo_name"
    /\ pout' = parse_repo_name(pin)
    /\ UNCHANGED <<pin, pathVars, cfgVars, fsVars, invVars>>

CallSwitchParseRepoName ==
    /\ pfn = "none"
    /\ pfn' = "switch_parse_repo_name"
    /\ pout' = switch_parse_repo_name(pin)
    /\ UNCHANGED <<pin, pathVars, cfgVars, fsVars, invVars>>

CallCreateParse ==
    /\ pfn = "none"
    /\ pfn' = "create_parse"
    /\ pout' = create_parse(pin)
    /\ UNCHANGED <<pin, pathVars, cfgVars, fsVars, invVars>>

NextParse ==
    \/ CallParseRepositoryUrl
    \/ CallParseRepoName
    \/ CallSwitchParseRepoName
    \/ CallCreateParse

SpecParse == InitParse /\ [][NextParse]_vars

(***************************************************************************)
(* Path resolution as a pure function: Init draws the inputs, one action   *)
(* per flow applies that flow's path composition.                          *)
(***************************************************************************)
Roots == {<<"/", "r">>, <<"/", "r", "/">>}

PathNames == Names \cup {S_abs}

WorktreeArgs == {None, Some(S_dev), Some(S_dot_git), Some(S_nested), Some(S_abs)}

InitPath ==
    /\ rin \in [root : Roots, host : PathNames, owner : PathNames, repo : PathNames,
                worktree : WorktreeArgs]
    /\ rfn = "none"
    /\ rout = NoPaths
    /\ ParseIdle
    /\ ConfigIdle
    /\ FlowIdle

ResolveCreate ==
    /\ rfn = "none"
    /\ rfn' = "create"
    /\ rout' = create_paths(rin.root, rin.host, rin.owner, rin.repo, rin.worktree)
    /\ UNCHANGED <<rin, parseVars, cfgVars, fsVars, invVars>>

ResolveGet ==
    /\ rfn = "none"
    /\ rfn' = "get"
    /\ rout' = get_paths(rin.root, rin.host, rin.owner, rin.repo, rin.worktree)
    /\ UNCHANGED <<rin, parseVars, cfgVars, fsVars, invVars>>

NextPath == ResolveCreate \/ ResolveGet

SpecPath == InitPath /\ [][NextPath]_vars

(***************************************************************************)
(* create_worktree on its own: Init draws a bare repository with some      *)
(* branches and some worktrees, the actions call create.rs's and get.rs's  *)
(* create_worktree on it.                                                  *)
(***************************************************************************)
BareKey == RepoDirKey \o <<S_dot_git>>

Branches == {S_main, S_master, S_dev}

\* worktrees a repository may have: a branch checked out under its own name,
\* or main checked out in a worktree named dev
WorktreeSets ==
    {w \in SUBSET {[name |-> S_main, branch |-> S_main],
                   [name |-> S_dev, branch |-> S_dev],
                   [name |-> S_dev, branch |-> S_main]} :
        \A x \in w, y \in w : (x.name = y.name \/ x.branch = y.branch) => x = y}

InitWorktree ==
    /\ ParseIdle
    /\ PathIdle
    /\ ConfigIdle
    /\ files = {}
    /\ noread = {}
    /\ \E refs \in SUBSET Branches, wts \in WorktreeSets :
        /\ {w.branch : w \in wts} \subseteq refs
        /\ repos = [k \in {BareKey} |-> [refs |-> refs, wts |-> wts,
                                      tip |-> [x \in refs |-> RemoteCommit]]]
        /\ dirs = Ancestors(BareKey) \cup {RepoDirKey \o <<w.name>> : w \in wts}
    /\ pc = [p \in Procs |-> "idle"]
    /\ call = [p \in Procs |-> NoCall]
    /\ loc = [p \in Procs |-> NoPaths]
    /\ res = [p \in Procs |-> "none"]
    /\ ops = [p \in Procs |-> <<>>]
    /\ rerun = [p \in Procs |-> NoRerun]
    /\ out = [p \in Procs |-> NoOut]
    /\ race = NoRace

\* one call with outcome o, for the paths of worktree `branch`
WorktreeCall(p, fn, branch, paths, o) ==
    /\ pc[p] = "idle"
    /\ pc' = [pc EXCEPT ![p] = "done"]
    /\ call' = [call EXCEPT ![p] = [repo |-> <<>>, worktree |-> Some(branch), cmd |-> fn]]
    /\ loc' = [loc EXCEPT ![p] = paths]
    /\ res' = [res EXCEPT ![p] = IF o.ok THEN "ok" ELSE "err"]
    /\ ops' = [ops EXCEPT ![p] = <<"add_worktree">>]
    /\ dirs' = o.dirs
    /\ repos' = o.repos
    /\ UNCHANGED <<parseVars, pathVars, cfgVars, files, noread, rerun, out, race>>

CallCreateWorktree(p, branch) ==
    LET paths == create_paths(Root, S_github, <<"a">>, <<"B", "c">>, Some(branch))
    IN  \E o \in create_worktree(dirs, files, repos, paths.bare_repo_path,
                                 paths.worktree_path, branch) :
            WorktreeCall(p, "create_worktree", branch, paths, o)

CallGetCreateWorktree(p, branch) ==
    LET paths == get_paths(Root, S_github, <<"a">>, <<"B", "c">>, Some(branch))
    IN  \E o \in get_create_worktree(dirs, files, repos, paths.bare_repo_path,
                                     paths.worktree_path, branch) :
            WorktreeCall(p, "get_create_worktree", branch, paths, o)

NextWorktree ==
    \E p \in SeqProcs :
        \/ \E branch \in Branches : CallCreateWorktree(p, branch)
        \/ \E branch \in Branches : CallGetCreateWorktree(p, branch)
        \/ Finish(p)

SpecWorktree == InitWorktree /\ [][NextWorktree]_vars

(***************************************************************************)
(* The read-only commands on their own: Init draws what is on disk below   *)
(* the root, the actions run switch and the two listings on it.            *)
(***************************************************************************)
RootKey == Components(Root)

\* <root>/<host>/a/Bc
RepoKey(host) == RootKey \o <<host, <<"a">>, <<"B", "c">>>>

S_h == <<"h">>

S_n == <<"n">>

\* a piece of disk: directories and files
Tree(d, f) == [d |-> d, f |-> f]

EmptyTree == Tree({}, {})

DirTree(k) == Tree(Ancestors(k), {})

FileTree(k) == Tree(Ancestors(ParentOf(k)), {k})

Merge(trees) == Tree(UNION {t.d : t \in trees}, UNION {t.f : t \in trees})

\* the entry `name` of directory k: absent or a directory; absent or a file
AsDir(k, name) == {EmptyTree, DirTree(k \o <<name>>)}

AsFile(k, name) == {EmptyTree, FileTree(k \o <<name>>)}

\* <root>/github.com/a/Bc: absent, a file, or a directory with any of main
\* (directory or file), master, dev, .git and a file n in it
GithubTrees ==
    LET k == RepoKey(S_github)
    IN  {EmptyTree, FileTree(k)}
        \cup {Merge({DirTree(k), m, ms, dv, g, n}) :
                m \in AsDir(k, S_main) \cup AsFile(k, S_main),
                ms \in AsDir(k, S_master), dv \in AsDir(k, S_dev),
                g \in AsDir(k, S_dot_git), n \in AsFile(k, S_n)}

\* the same repository under another host, with a worktree dev
OtherHostTrees(host) == AsDir(RepoKey(host), S_dev)

\* a directory named .git at root, owner or repository level, with
\* directories below it down to worktree level
DotGitTrees ==
    AsDir(RootKey \o <<S_dot_git, <<"a">>, <<"B", "c">>>>, S_dev)
    \cup AsDir(RootKey \o <<S_github, S_dot_git, <<"B", "c">>>>, S_dev)
    \cup AsDir(RootKey \o <<S_github, <<"a">>, S_dot_git>>, S_dev)

\* a repository with the worktree main, beside a directory /x outside the root
OutsideTrees ==
    {Merge({DirTree(RepoKey(S_github) \o <<S_main>>), DirTree(Components(S_abs)), x}) :
        x \in AsDir(RepoKey(S_github), Components(S_abs)[1])}

\* what may be found where the root should be: nothing, a file, or a
\* directory holding some of the trees above
ReadDisks ==
    {Tree({<<>>}, {}), Tree({<<>>}, {RootKey})}
    \cup OutsideTrees
    \cup {Merge({DirTree(RootKey), gh, gl, bb, h, dg}) :
            gh \in GithubTrees, gl \in OtherHostTrees(S_gitlab),
            bb \in OtherHostTrees(S_bitbucket),
            h \in OtherHostTrees(S_h) \cup {FileTree(RootKey \o <<S_h>>)},
            dg \in DotGitTrees}

InitRead ==
    /\ ParseIdle
    /\ PathIdle
    /\ ConfigIdle
    /\ \E t \in ReadDisks : dirs = t.d /\ files = t.f
    /\ noread = {}
    /\ repos = NoRepos
    /\ pc = [p \in Procs |-> "idle"]
    /\ call = [p \in Procs |-> NoCall]
    /\ loc = [p \in Procs |-> NoPaths]
    /\ res = [p \in Procs |-> "none"]
    /\ ops = [p \in Procs |-> <<>>]
    /\ rerun = [p \in Procs |-> NoRerun]
    /\ out = [p \in Procs |-> NoOut]
    /\ race = NoRace

SwitchWorktreeArgs == {None, Some(S_dev), Some(S_n), Some(S_abs)}

NextRead ==
    \E p \in SeqProcs :
        \/ \E repo \in {ShortRef, BadRef}, worktree \in SwitchWorktreeArgs :
                SwitchCmd(p, repo, worktree)
        \/ \E show_worktrees \in BOOLEAN : ListCmd(p, show_worktrees)
        \/ Finish(p)

SpecRead == InitRead /\ [][NextRead]_vars

(***************************************************************************)
(* Identity Parser: properties, checked under SpecParse.                   *)
(***************************************************************************)
HttpsRef(h, o, n, sfx) == S_https \o h \o <<"/">> \o o \o <<"/">> \o n \o sfx

SshRef(u, h, o, n, sfx) == u \o h \o <<":">> \o o \o <<"/">> \o n \o sfx

\* C1 as stated: every well-formed https://host/owner/name[.git] or
\* git@host:owner/name[.git] parses to exactly (host, owner, name).
C1_ExactIdentity ==
    pfn = "parse_repository_url" =>
        \A h \in Names, o \in Names, n \in Names, sfx \in Suffixes :
            /\ pin = HttpsRef(h, o, n, sfx) => pout = Ok(h, o, n)
            /\ pin = SshRef(S_git_at, h, o, n, sfx) => pout = Ok(h, o, n)

\* C1 amended: the parse succeeds, owner and name are returned as written with
\* the .git suffix removed, the host is returned as written for the git@ form
\* and lower-cased for the https form.
C1_IdentityHostLowercased ==
    pfn = "parse_repository_url" =>
        \A h \in Names, o \in Names, n \in Names, sfx \in Suffixes :
            /\ pin = HttpsRef(h, o, n, sfx) => pout = Ok(ToLower(h), o, n)
            /\ pin = SshRef(S_git_at, h, o, n, sfx) => pout = Ok(h, o, n)

C1_Witness ==
    /\ pfn = "parse_repository_url"
    /\ pin = HttpsRef(<<"B", "c">>, <<"a">>, <<"B", "c">>, S_dot_git)
    /\ pout = Ok(<<"b", "c">>, <<"a">>, <<"B", "c">>)

\* C2: a scheme-prefixed or SSH-style reference whose path after the host has
\* one segment, or more than two segments, is rejected by parse_repository_url.
C2_ExactlyTwoSegments ==
    pfn = "parse_repository_url" =>
        \A h \in Names, sfx \in Suffixes :
            \A segs \in UNION {[1..k -> Names] : k \in (1..MaxSegs) \ {2}} :
                (\/ pin = S_https \o h \o <<"/">> \o Join(segs, "/") \o sfx
                 \/ pin = S_git_at \o h \o <<":">> \o Join(segs, "/") \o sfx)
                    => ~pout.ok

\* C3: every identity a successful parse returns has a non-empty host, a
\* non-empty owner and a non-empty name.
C3_FieldsNonEmpty ==
    (pfn \in {"parse_repository_url", "parse_repo_name", "create_parse"} /\ pout.ok)
        => (pout.host # <<>> /\ pout.owner # <<>> /\ pout.name # <<>>)

\* C4: parse_repo_name accepts exactly the strings with one '/' and a non-empty
\* segment on either side of it, and returns (github.com, owner, name) for them
\* (switch's copy returns the same owner and name, without a host); every other
\* string is rejected.
C4_ShortForm ==
    LET i == FirstIndex(pin, "/")
        shortForm == i > 1 /\ i < Len(pin) /\ LastIndex(pin, "/") = i
        owner == SubSeq(pin, 1, i - 1)
        name == SubSeq(pin, i + 1, Len(pin))
    IN  /\ pfn = "parse_repo_name" =>
            IF shortForm THEN pout = Ok(S_github, owner, name) ELSE ~pout.ok
        /\ pfn = "switch_parse_repo_name" =>
            IF shortForm THEN pout.ok /\ pout.owner = owner /\ pout.name = name
            ELSE ~pout.ok

C4_Witness ==
    /\ pfn = "parse_repo_name"
    /\ pin = <<"a", "/", "B", "c">>
    /\ pout = Ok(S_github, <<"a">>, <<"B", "c">>)

\* C5: in the create flow the host is defaulted to github.com only for a
\* reference with no scheme prefix and no '@' or ':' marker, and a reference
\* user@host:owner/name, for any user, yields the host written in it.
C5_HostNeverDefaultedForUrl ==
    pfn = "create_parse" =>
        /\ (pout.ok /\ pout.host = S_github) =>
                (/\ ~Contains(pin, S_scheme)
                 /\ FirstIndex(pin, "@") = 0
                 /\ FirstIndex(pin, ":") = 0)
        /\ \A u \in Users, h \in Names, o \in Names, n \in Names, sfx \in Suffixes :
                pin = SshRef(u, h, o, n, sfx) => pout = Ok(h, o, n)

(***************************************************************************)
(* Path Resolver: properties, checked under SpecPath.                      *)
(***************************************************************************)
\* the components of root/host/owner/name/last
LayoutOf(r, last) ==
    Components(Join(<<r.root, r.host, r.owner, r.repo, last>>, "/"))

PathsAsLaidOut ==
    /\ Components(rout.worktree_path) = LayoutOf(rin, BranchOrMain(rin.worktree))
    /\ Components(rout.bare_repo_path) = LayoutOf(rin, S_dot_git)

LastName(k) == k[Len(k)]

\* C7: the path a successful create treats as the worktree is never the bare
\* repository path repo_dir/.git, whatever worktree name was passed.
C7_WorktreeNeverDotGit ==
    \A p \in Procs :
        (pc[p] = "done" /\ res[p] = "ok" /\ call[p].cmd = "create")
            => Components(loc[p].worktree_path) # Components(loc[p].bare_repo_path)

\* C8: every worktree path create hands to create_worktree is a direct child
\* of repo_dir and its directory name is the branch name.
C8_WorktreeDirectChild ==
    \A p \in Procs :
        (call[p].cmd = "create" /\ pc[p] \in {"make_wt", "retry_wt"})
            => /\ ParentOf(Components(loc[p].worktree_path)) = Components(loc[p].repo_dir)
               /\ LastName(Components(loc[p].worktree_path)) = loc[p].branch_name

\* C9: when bare_path exists as the ensure-bare step is reached, the step
\* makes no call (no clone, no init), leaves the disk as it is and goes on to
\* the worktree step, in the create flow and in the clone flow.
C9_ExistingBareUntouched ==
    [][\A p \in Procs :
        (pc[p] = "check_bare" /\ PathExists(dirs, files, loc[p].bare_repo_path))
            => /\ pc'[p] = "check_wt"
               /\ ops'[p] = ops[p]
               /\ UNCHANGED fsVars]_vars

\* an invocation is past its ensure-bare step, which found bare_path (here a
\* plain directory with no repository in it) and made no call
C9_Witness ==
    \E p \in Procs :
        /\ pc[p] = "check_wt"
        /\ ops[p] = <<>>
        /\ PathExists(dirs, files, loc[p].bare_repo_path)
        /\ Components(loc[p].bare_repo_path) \notin DOMAIN repos

\* C10: a create or clone that is run again with identical inputs right after
\* it succeeded succeeds again, makes no call that changes the disk (no clone,
\* no init, no worktree creation, no deletion) and leaves the disk exactly as
\* the first run left it.
C10_Idempotent ==
    \A p \in Procs :
        rerun[p].on =>
            /\ ops[p] = <<>>
            /\ dirs = rerun[p].dirs
            /\ repos = rerun[p].repos
            /\ pc[p] = "done" => res[p] = "ok"
            /\ pc[p] \in {"check_bare", "check_wt", "done"}

\* a second run of a create that had to create both the repository and the
\* worktree has returned
C10_Witness ==
    \E p \in Procs :
        /\ rerun[p].on
        /\ pc[p] = "done"
        /\ res[p] = "ok"
        /\ Components(loc[p].bare_repo_path) \in DOMAIN repos
        /\ repos[Components(loc[p].bare_repo_path)].wts # {}

\* every repository is a directory on disk
ReposAreDirs == DOMAIN repos \subseteq dirs

(***************************************************************************)
(* Listing a root some of whose directories cannot be read.                *)
(***************************************************************************)
MaxUnreadable == 2

\* a root with a file h and any of: github.com/a/Bc holding dev and .git,
\* gitlab.com/a/Bc/dev
ListErrDisks ==
    {Merge({DirTree(RootKey), gh, gl, h}) :
        gh \in {EmptyTree}
               \cup {Merge({DirTree(RepoKey(S_github)), dv, g}) :
                        dv \in AsDir(RepoKey(S_github), S_dev),
                        g \in AsDir(RepoKey(S_github), S_dot_git)},
        gl \in OtherHostTrees(S_gitlab),
        h \in AsFile(RootKey, S_h)}

InitListErr ==
    /\ ParseIdle
    /\ PathIdle
    /\ ConfigIdle
    /\ \E t \in ListErrDisks :
        /\ dirs = t.d
        /\ files = t.f
        /\ noread \in {u \in SUBSET {k \in t.d : IsUnder(RootKey, k)} :
                            Cardinality(u) <= MaxUnreadable}
    /\ repos = NoRepos
    /\ pc = [p \in Procs |-> "idle"]
    /\ call = [p \in Procs |-> NoCall]
    /\ loc = [p \in Procs |-> NoPaths]
    /\ res = [p \in Procs |-> "none"]
    /\ ops = [p \in Procs |-> <<>>]
    /\ rerun = [p \in Procs |-> NoRerun]
    /\ out = [p \in Procs |-> NoOut]
    /\ race = NoRace

NextListErr ==
    \E p \in SeqProcs :
        \/ \E show_worktrees \in BOOLEAN : ListCmd(p, show_worktrees)
        \/ Finish(p)

SpecListErr == InitListErr /\ [][NextListErr]_vars

(***************************************************************************)
(* Two create invocations for the same repository running at once: their   *)
(* steps interleave freely, since the code takes no lock.                  *)
(***************************************************************************)
RaceWorktrees == {None, Some(S_dev)}

InitRace ==
    /\ ParseIdle
    /\ PathIdle
    /\ ConfigIdle
    /\ FlowIdle

RaceStep(p) ==
    \/ \E worktree \in RaceWorktrees : CreateStart(p, ShortRef, worktree)
    \/ Finish(p)
    \/ CheckBare(p)
    \/ MakeBare(p)
    \/ CheckWorktree(p)
    \/ MakeWorktree(p)
    \/ AfterWorktreeFailure(p)
    \/ RemoveBare(p)
    \/ RemoveWorktreeDir(p)
    \/ RecreateBare(p)
    \/ RetryWorktree(p)

NextRace == \E p \in Procs : RaceStep(p)

SpecRace == InitRace /\ [][NextRace]_vars

(***************************************************************************)
(* Config::load as a pure function of the environment: Init draws the two  *)
(* variables, the one action loads the configuration.                      *)
(***************************************************************************)
MaxRootLen == 4

RootChars == {"~", "/", "a"}

RootStrings == UNION {[1..k -> RootChars] : k \in 0..MaxRootLen}

HomeStrings == {<<>>, <<"/", "h">>, <<"/", "~">>}

Environments ==
    {[NEOGHQ_ROOT |-> r, HOME |-> h] :
        r \in {None} \cup {Some(x) : x \in RootStrings},
        h \in {None} \cup {Some(x) : x \in HomeStrings}}

InitConfig ==
    /\ env \in Environments
    /\ cfg = NotLoaded
    /\ ParseIdle
    /\ PathIdle
    /\ FlowIdle

CallConfigLoad ==
    /\ cfg = NotLoaded
    /\ cfg' = Config_load(env)
    /\ UNCHANGED <<env, parseVars, pathVars, fsVars, invVars>>

NextConfig == CallConfigLoad

SpecConfig == InitConfig /\ [][NextConfig]_vars

(***************************************************************************)
(* Success postcondition, recovery and worktree base: properties, checked  *)
(* under Spec.                                                             *)
(***************************************************************************)
\* root, host, owner and name of the command c, as its parser returns them
IdentityOf(c) ==
    LET id == ParseFor(c)
    IN  [host |-> id.host, owner |-> id.owner, repo |-> id.name, root |-> Root]

\* root/host/owner/name/.git and root/host/owner/name/<worktree> both exist
LaidOutOnDisk(c) ==
    /\ LayoutOf(IdentityOf(c), S_dot_git) \in dirs \cup files
    /\ LayoutOf(IdentityOf(c), BranchOrMain(c.worktree)) \in dirs \cup files

IsPrefix(a, b) == Len(a) <= Len(b) /\ SubSeq(b, 1, Len(a)) = a

\* the calls create makes from its first worktree attempt on: everything after
\* the initialisation of the ensure-bare step, if that step made one
FromWorktreeStep(o) ==
    IF Len(o) > 0 /\ o[1] = "init_bare" THEN Tail(o) ELSE o

\* one recovery cycle after the failed attempt, with and without a worktree
\* directory to delete
CycleWithDir ==
    <<"add_worktree", "remove_bare", "remove_worktree", "init_bare", "add_worktree">>

CycleNoDir == <<"add_worktree", "remove_bare", "init_bare", "add_worktree">>

\* C12: from its first worktree attempt on, create makes at most the calls of
\* one recovery cycle, in this order: the attempt, delete bare_path, delete the
\* worktree directory (only if present), re-initialise the bare repository,
\* one retry.  Each recovery step is reached only right after the step before
\* it; after the retry create has returned, whatever the retry's outcome; a
\* success return comes with no call, with the first attempt alone or with a
\* whole cycle; and an attempt that failed while bare_path exists is never
\* returned as the error without the deletion having been tried.
C12_OneRecoveryCycle ==
    \A p \in Procs :
        call[p].cmd = "create" =>
            LET o == FromWorktreeStep(ops[p])
                bare == PathExists(dirs, files, loc[p].bare_repo_path)
            IN  /\ IsPrefix(o, CycleWithDir) \/ IsPrefix(o, CycleNoDir)
                /\ pc[p] \in {"failed_wt", "rm_bare"} => o = <<"add_worktree">>
                /\ pc[p] = "rm_wt" => o = SubSeq(CycleNoDir, 1, 2)
                /\ pc[p] = "reinit" => o \in {SubSeq(CycleNoDir, 1, 2), SubSeq(CycleWithDir, 1, 3)}
                /\ pc[p] = "retry_wt" => o \in {SubSeq(CycleNoDir, 1, 3), SubSeq(CycleWithDir, 1, 4)}
                /\ o \in {CycleNoDir, CycleWithDir} => pc[p] = "done"
                /\ (pc[p] = "done" /\ res[p] = "ok")
                        => o \in {<<>>, <<"add_worktree">>, CycleNoDir, CycleWithDir}
                /\ (pc[p] = "done" /\ res[p] = "err" /\ o = <<"add_worktree">>) => ~bare

\* a create whose attempt failed on an existing bare_path went through the
\* whole cycle, deleted the worktree directory the attempt had left, and
\* returned the retry's failure as the error
C12_Witness ==
    \E p \in Procs :
        /\ call[p].cmd = "create"
        /\ pc[p] = "done"
        /\ res[p] = "err"
        /\ ops[p] = CycleWithDir
        /\ PathExists(dirs, files, loc[p].bare_repo_path)

\* this step removes a directory named .git from the disk
BareRemoved == \E k \in dirs \ dirs' : k # <<>> /\ LastName(k) = S_dot_git

\* this step is the deletion of bare_path in the recovery path of a create
InRecoveryOf(p) ==
    /\ call[p].cmd = "create"
    /\ pc[p] = "rm_bare"
    /\ pc'[p] = "rm_wt"
    /\ Components(loc[p].bare_repo_path) \in dirs \ dirs'

\* the calls o include a deletion of bare_path that succeeded: a call follows it
DeletedBare(o) == \E i \in 1..(Len(o) - 1) : o[i] = "remove_bare"

\* the calls o include an initialisation of bare_path after its deletion
RecreateTried(o) ==
    \E i \in 1..Len(o), j \in 1..Len(o) :
        i < j /\ o[i] = "remove_bare" /\ o[j] = "init_bare"

\* C13 as stated: a step of any command (clone, create, switch, list) removes
\* a bare repository directory only as the deletion step of create's recovery
\* path, and a command that deleted bare_path has tried to re-initialise it
\* by the time it returns.
C13_DeletedOnlyToBeRecreated ==
    [][/\ BareRemoved => \E p \in Procs : InRecoveryOf(p)
       /\ \A p \in Procs :
            (pc'[p] = "done" /\ DeletedBare(ops'[p])) => RecreateTried(ops'[p])]_vars

\* C13 amended: the same, except that a create whose deletion of the target
\* worktree directory fails right after it deleted bare_path returns that
\* error without trying to re-initialise bare_path.
C13_DeletedOnlyInRecovery ==
    [][/\ BareRemoved => \E p \in Procs : InRecoveryOf(p)
       /\ \A p \in Procs :
            (pc'[p] = "done" /\ DeletedBare(ops'[p]) /\ ~RecreateTried(ops'[p]))
                => /\ res'[p] = "err"
                   /\ ops'[p][Len(ops'[p])] = "remove_worktree"
                   /\ PathExists(dirs', files', loc'[p].worktree_path)]_vars

\* a create has just deleted a bare_path that held a repository, in its
\* recovery path
C13_Witness ==
    \E p \in Procs :
        /\ call[p].cmd = "create"
        /\ pc[p] = "rm_wt"
        /\ ops[p][Len(ops[p])] = "remove_bare"
        /\ ~PathExists(dirs, files, loc[p].bare_repo_path)

(***************************************************************************)
(* Worktree base: properties, checked under SpecWorktree.                  *)
(***************************************************************************)
\* this step is a call of create.rs create_worktree by p that added a worktree
AddedBy(p) ==
    /\ pc[p] = "idle"
    /\ pc'[p] = "done"
    /\ call'[p].cmd = "create_worktree"
    /\ res'[p] = "ok"

\* C14: a successful create_worktree(branch) attaches the new worktree to
\* refs/heads/<branch> when that ref exists, whether or not main exists; else
\* to refs/heads/main when that exists; else it leaves the choice to the
\* engine, which makes the branch from HEAD.  It adds exactly one worktree,
\* named <branch>, and removes no ref.
C14_BaseOrder ==
    [][\A p \in Procs :
        AddedBy(p) =>
            LET before == repos[BareKey]
                after == repos'[BareKey]
                branch == call'[p].worktree.val
                attached(b) == /\ after.wts = before.wts \cup {[name |-> branch, branch |-> b]}
                               /\ after.refs = before.refs
            IN  /\ branch \in before.refs => attached(branch)
                /\ (branch \notin before.refs /\ S_main \in before.refs) => attached(S_main)
                /\ (branch \notin before.refs /\ S_main \notin before.refs)
                        => /\ after.wts = before.wts \cup {[name |-> branch, branch |-> branch]}
                           /\ after.refs = before.refs \cup {branch}]_vars

\* create_worktree(dev) has attached a worktree to refs/heads/dev in a
\* repository that also has refs/heads/main
C14_Witness ==
    \E p \in Procs :
        /\ pc[p] = "done"
        /\ res[p] = "ok"
        /\ call[p] = [repo |-> <<>>, worktree |-> Some(S_dev), cmd |-> "create_worktree"]
        /\ {S_main, S_dev} \subseteq repos[BareKey].refs
        /\ [name |-> S_dev, branch |-> S_dev] \in repos[BareKey].wts
        /\ [name |-> S_main, branch |-> S_main] \notin repos[BareKey].wts

(***************************************************************************)
(* Lookup and listing: properties, checked under SpecRead.                 *)
(***************************************************************************)
\* p is a switch with no worktree name that has found its repository and
\* returned: what it returned is what find_default_worktree returned
DefaultLookupDone(p) ==
    /\ pc[p] = "done"
    /\ call[p].cmd = "switch"
    /\ ~call[p].worktree.some
    /\ loc[p].repo_dir # <<>>

\* the directories directly below the directory with components k
ChildDirs(k) == {x \in dirs : x # <<>> /\ ParentOf(x) = k}

\* C15: find_default_worktree returns repo_dir/main whenever a directory main
\* exists in repo_dir, whatever else exists there; it returns repo_dir/master
\* when a directory master exists and no directory main does.
C15_MainThenMaster ==
    \A p \in Procs :
        DefaultLookupDone(p) =>
            LET k == Components(loc[p].repo_dir)
                returned(name) == /\ res[p] = "ok"
                                  /\ Components(loc[p].worktree_path) = k \o <<name>>
                                  /\ out[p].lines = {loc[p].worktree_path}
            IN  /\ k \o <<S_main>> \in dirs => returned(S_main)
                /\ (k \o <<S_main>> \notin dirs /\ k \o <<S_master>> \in dirs)
                        => returned(S_master)

\* the default worktree of a repository that has main, master, dev and .git
\* was looked up and is main
C15_Witness ==
    \E p \in Procs :
        /\ DefaultLookupDone(p)
        /\ {RepoKey(S_github) \o <<n>> : n \in {S_main, S_master, S_dev, S_dot_git}}
                \subseteq dirs
        /\ res[p] = "ok"
        /\ Components(loc[p].worktree_path) = RepoKey(S_github) \o <<S_main>>

\* repo_dir has neither a directory main nor a directory master
NoMainNoMaster(k) == k \o <<S_main>> \notin dirs /\ k \o <<S_master>> \notin dirs

\* the lookup returned a directory directly below repo_dir that is not .git
ReturnedOther(p, k) ==
    /\ res[p] = "ok"
    /\ Components(loc[p].worktree_path) \in ChildDirs(k)
    /\ LastName(Components(loc[p].worktree_path)) # S_dot_git

\* C16 as stated: with neither a directory main nor a directory master,
\* find_default_worktree returns a directory directly below repo_dir that is
\* not named .git if there is one, and fails with the worktree-not-found error
\* if there is none; it fails with that error only when repo_dir has no
\* directory but .git.
C16_OtherElseNotFound ==
    \A p \in Procs :
        DefaultLookupDone(p) =>
            LET k == Components(loc[p].repo_dir)
                others == {x \in ChildDirs(k) : LastName(x) # S_dot_git}
            IN  /\ NoMainNoMaster(k) =>
                    IF others # {} THEN ReturnedOther(p, k)
                    ELSE res[p] = "err" /\ out[p].err = "worktree_not_found"
                /\ (res[p] = "err" /\ out[p].err = "worktree_not_found") => others = {}

\* C16 amended: the same for a repo_dir that is a directory; when what was
\* found at repo_dir is not a directory the lookup fails with the error of
\* read_dir.
C16_OtherElseNotFoundInDir ==
    \A p \in Procs :
        DefaultLookupDone(p) =>
            LET k == Components(loc[p].repo_dir)
                others == {x \in ChildDirs(k) : LastName(x) # S_dot_git}
            IN  /\ (NoMainNoMaster(k) /\ k \in dirs) =>
                    IF others # {} THEN ReturnedOther(p, k)
                    ELSE res[p] = "err" /\ out[p].err = "worktree_not_found"
                /\ k \notin dirs => (res[p] = "err" /\ out[p].err = "io")
                /\ (res[p] = "err" /\ out[p].err = "worktree_not_found") => others = {}

\* the lookup failed on a repository directory that holds only .git and files
C16_Witness ==
    \E p \in Procs :
        /\ DefaultLookupDone(p)
        /\ Components(loc[p].repo_dir) = RepoKey(S_github)
        /\ ChildDirs(RepoKey(S_github)) = {RepoKey(S_github) \o <<S_dot_git>>}
        /\ {RepoKey(S_github) \o <<S_main>>, RepoKey(S_github) \o <<S_n>>} \subseteq files
        /\ res[p] = "err"
        /\ out[p].err = "worktree_not_found"

\* p is a switch of a/Bc that has returned
LookupDone(p) ==
    /\ pc[p] = "done"
    /\ call[p].cmd = "switch"
    /\ call[p].repo = ShortRef

\* the well-known hosts, by position, under which a/Bc exists
KnownHits == {i \in 1..Len(hosts) : RepoKey(hosts[i]) \in dirs \cup files}

\* every <root>/<host>/a/Bc that exists
AnyHostHits ==
    {k \in dirs \cup files :
        /\ Len(k) = Len(RootKey) + 3
        /\ IsUnder(RootKey, k)
        /\ SubSeq(k, Len(k) - 1, Len(k)) = <<<<"a">>, <<"B", "c">>>>}

\* find_repository_path returned the path with components k
FoundAt(p, k) == loc[p].repo_dir # <<>> /\ Components(loc[p].repo_dir) = k

\* find_repository_path failed with the repository-not-found error
RepositoryNotFound(p) ==
    /\ loc[p].repo_dir = <<>>
    /\ res[p] = "err"
    /\ out[p].err = "repository_not_found"

\* C17 as stated: find_repository_path returns root/github.com/a/Bc, else
\* root/gitlab.com/a/Bc, else root/bitbucket.org/a/Bc, whichever exists first
\* in that order; if none of the three exists it returns some existing
\* root/<host>/a/Bc; it fails with the repository-not-found error exactly when
\* no root/<host>/a/Bc exists, a missing root included.
C17_KnownHostsThenScan ==
    \A p \in Procs :
        LookupDone(p) =>
            /\ KnownHits # {} =>
                    FoundAt(p, RepoKey(hosts[CHOOSE i \in KnownHits : \A j \in KnownHits : i <= j]))
            /\ (KnownHits = {} /\ AnyHostHits # {}) => \E k \in AnyHostHits : FoundAt(p, k)
            /\ AnyHostHits = {} <=> RepositoryNotFound(p)

\* C17 amended: the same for a root that is a directory or is missing; when
\* the root exists and is not a directory the lookup fails with the error of
\* read_dir.
C17_KnownHostsThenScanInDir ==
    \A p \in Procs :
        LookupDone(p) =>
            /\ KnownHits # {} =>
                    FoundAt(p, RepoKey(hosts[CHOOSE i \in KnownHits : \A j \in KnownHits : i <= j]))
            /\ (KnownHits = {} /\ AnyHostHits # {}) => \E k \in AnyHostHits : FoundAt(p, k)
            /\ RootKey \notin files => (AnyHostHits = {} <=> RepositoryNotFound(p))
            /\ RootKey \in files =>
                    (loc[p].repo_dir = <<>> /\ res[p] = "err" /\ out[p].err = "io")

\* with no repository under github.com and one each under gitlab.com,
\* bitbucket.org and h, the lookup returned the one under gitlab.com
C17_Witness ==
    \E p \in Procs :
        /\ LookupDone(p)
        /\ KnownHits = {2, 3}
        /\ RepoKey(S_h) \in AnyHostHits
        /\ FoundAt(p, RepoKey(S_gitlab))

\* p is a listing (of repositories or of worktrees) that has returned
ListingDone(p) == pc[p] = "done" /\ call[p].cmd \in {"list", "list_worktrees"}

\* C18: a listing, of repositories or of worktrees, run with a root that does
\* not exist returns success and prints nothing.
C18_MissingRootListsNothing ==
    \A p \in Procs :
        (ListingDone(p) /\ ~PathExists(dirs, files, Root))
            => (res[p] = "ok" /\ out[p].lines = {} /\ out[p].err = "none")

\* the repository listing has returned on a disk without the root
C18_Witness ==
    \E p \in Procs :
        /\ ListingDone(p)
        /\ call[p].cmd = "list"
        /\ dirs = {<<>>}
        /\ files = {}
        /\ res[p] = "ok"

\* the components of a printed path below the root
BelowRoot(line) == SubSeq(Components(line), Len(RootKey) + 1, Len(Components(line)))

\* C19: no path a listing prints, of repositories or of worktrees, has a
\* component named .git below the root, every printed path is a directory,
\* and a listing of a root directory does not fail, whatever files lie in the
\* tree.
C19_NoDotGitListed ==
    \A p \in Procs :
        ListingDone(p) =>
            /\ \A line \in out[p].lines :
                    /\ \A i \in 1..Len(BelowRoot(line)) : BelowRoot(line)[i] # S_dot_git
                    /\ Components(line) \in dirs
            /\ RootKey \in dirs => res[p] = "ok"

(***************************************************************************)
(* Root resolution: property of Config::load, checked under SpecConfig.    *)
(***************************************************************************)
\* the root before expansion: NEOGHQ_ROOT, or ~/src/repos when it is unset
RootOf(e) == IF e.NEOGHQ_ROOT.some THEN e.NEOGHQ_ROOT.val ELSE S_default_root

\* the root needs expansion: it starts with "~/"
NeedsExpansion(root) == Len(root) >= 2 /\ root[1] = "~" /\ root[2] = "/"

\* C20: Config::load takes NEOGHQ_ROOT, or ~/src/repos when it is unset, as
\* the root; a leading ~ is replaced by the home path and the rest of the
\* root is left unchanged (result = home + remainder); loading fails with
\* the home-not-set error exactly when the root needs expansion and HOME is
\* not available, and succeeds with the root as it is when no expansion is
\* needed.
C20_RootResolution ==
    cfg # NotLoaded =>
        LET root == RootOf(env)
        IN  /\ NeedsExpansion(root) /\ env.HOME.some =>
                cfg = Loaded(env.HOME.val \o Tail(root))
            /\ NeedsExpansion(root) /\ ~env.HOME.some => cfg = HomeNotSet
            /\ ~NeedsExpansion(root) => cfg = Loaded(root)

(***************************************************************************)
(* Failed clone, local initialisation, order of the steps: properties of   *)
(* the flows, checked under Spec.                                          *)
(***************************************************************************)
\* this step is the clone of invocation p, and the clone failed
CloneFailed(p) ==
    /\ call[p].cmd = "get"
    /\ pc[p] = "make_bare"
    /\ pc'[p] # "check_wt"

InitSucceeded(p) ==
    /\ call[p].cmd = "create"
    /\ pc[p] \in {"check_wt", "retry_wt"}
    /\ ops[p] # <<>>
    /\ ops[p][Len(ops[p])] = "init_bare"

\* C22: every successful create_bare_repository, on first creation and on
\* recreation during recovery, leaves a bare repository at bare_path that has
\* refs/heads/main pointing at a parentless commit of the empty tree; so the
\* repository has at least one ref.
C22_InitWritesMain ==
    \A p \in Procs :
        InitSucceeded(p) =>
            LET k == Components(loc[p].bare_repo_path)
            IN  /\ k \in dirs
                /\ k \in DOMAIN repos
                /\ S_main \in repos[k].refs
                /\ repos[k].tip[S_main].parents = <<>>
                /\ repos[k].tip[S_main].tree = {}
                /\ repos[k].refs # {}

\* the recovery path has recreated the bare repository
C22_Witness ==
    \E p \in Procs :
        /\ InitSucceeded(p)
        /\ pc[p] = "retry_wt"

(***************************************************************************)
(* Concurrent creates: properties checked under SpecRace.                  *)
(***************************************************************************)
\* invocation p has deleted bare_path in its recovery path, and bare_path is
\* gone
JustDeleted(p) ==
    /\ pc[p] = "rm_wt"
    /\ ops[p][Len(ops[p])] = "remove_bare"
    /\ ~PathExists(dirs, files, loc[p].bare_repo_path)

\* invocation q created the repository at its bare_path and is about to add
\* its worktree to it
CreatedAndUsing(q) ==
    /\ call[q].cmd = "create"
    /\ pc[q] \in {"check_wt", "make_wt"}
    /\ ops[q] = <<"init_bare">>

\* C23: the exists-then-create pattern is not protected by any lock, and what
\* an invocation saw is not looked at again: an invocation that found
\* bare_path absent runs the creation whatever another invocation has done
\* to bare_path since, and an invocation that decided to recover runs the
\* deletion of bare_path whatever another invocation is doing with it.  (The
\* races this allows are the states of C23_Witness.)
C23_NoLock ==
    [][\A p \in Procs :
        /\ (pc[p] = "make_bare" /\ pc'[p] # "make_bare")
                => ops'[p] = Append(ops[p], "init_bare")
        /\ (pc[p] = "rm_bare" /\ pc'[p] # "rm_bare")
                => ops'[p] = Append(ops[p], "remove_bare")]_vars

\* two creates of one repository have both found bare_path absent and both
\* run the creation, and now the recovery of one of them has deleted the bare
\* repository the other one created and is about to use
C23_Witness ==
    /\ race.both
    /\ \E p \in Procs, q \in Procs :
        /\ p # q
        /\ loc[p].bare_repo_path = loc[q].bare_repo_path
        /\ JustDeleted(p)
        /\ CreatedAndUsing(q)

(***************************************************************************)
(* Order of the steps of one invocation, recovery and what it may delete:  *)
(* properties checked under Spec.                                          *)
(***************************************************************************)
\* this step is a worktree-creation attempt of invocation p
AttemptBy(p) ==
    /\ call[p].cmd \in {"create", "get"}
    /\ pc[p] \in {"make_wt", "retry_wt"}
    /\ pc'[p] # pc[p]

\* C24: every worktree-creation attempt of create and clone, the first one
\* and the retry after recovery, is made in a state where bare_path exists.
\* Before the first attempt the command has found bare_path or created it
\* (nothing else), before the retry its last call recreated the repository.
C24_BareBeforeWorktree ==
    [][\A p \in Procs :
        AttemptBy(p) =>
            /\ PathExists(dirs, files, loc[p].bare_repo_path)
            /\ pc[p] = "make_wt" => ops[p] \in {<<>>, <<"init_bare">>, <<"clone">>}
            /\ pc[p] = "retry_wt" =>
                /\ ops[p][Len(ops[p])] = "init_bare"
                /\ Components(loc[p].bare_repo_path) \in DOMAIN repos]_vars

\* a create has gone through recovery and its retry has added the worktree
C24_Witness ==
    \E p \in Procs :
        /\ pc[p] = "done"
        /\ res[p] = "ok"
        /\ Len(ops[p]) >= 4
        /\ ops[p][1] = "add_worktree"
        /\ ops[p][Len(ops[p]) - 1] = "init_bare"
        /\ ops[p][Len(ops[p])] = "add_worktree"

(***************************************************************************)
(* Switch with a worktree name: property checked under SpecRead.           *)
(***************************************************************************)
\* a switch with an explicit worktree name has found the repository and
\* returned
NamedLookupDone(p) ==
    /\ pc[p] = "done"
    /\ call[p].cmd = "switch"
    /\ call[p].worktree.some
    /\ loc[p].repo_dir # <<>>

\* the switch of p printed path, or failed with the worktree-not-found error,
\* according to whether path exists
PrintedIfExists(p, path) ==
    IF PathExists(dirs, files, path)
    THEN res[p] = "ok" /\ out[p].lines = {path}
    ELSE res[p] = "err" /\ out[p].err = "worktree_not_found" /\ out[p].lines = {}

StartsUnparsable(p) ==
    /\ pc[p] = "idle"
    /\ pc'[p] # "idle"
    /\ \/ call'[p].cmd = "create" /\ ~create_parse(call'[p].repo).ok
       \/ call'[p].cmd = "switch" /\ ~switch_parse_repo_name(call'[p].repo).ok

\* C26: when the repository reference cannot be parsed, create and switch
\* return an error before any filesystem access: the command returns in that
\* step with no call made, no directory is created or deleted and the disk is
\* unchanged; switch reports the parse error whatever is on the disk.
C26_ParseErrorTouchesNothing ==
    [][\A p \in Procs :
        StartsUnparsable(p) =>
            /\ pc'[p] = "done"
            /\ res'[p] = "err"
            /\ ops'[p] = <<>>
            /\ call'[p].cmd = "switch" => out'[p] = [err |-> "parse", lines |-> {}]
            /\ UNCHANGED fsVars]_vars

\* a create with a reference that cannot be parsed has returned its error on
\* a disk where the root does not exist
C26_Witness ==
    \E p \in Procs :
        /\ pc[p] = "done"
        /\ call[p].cmd = "create"
        /\ call[p].repo = BadRef
        /\ res[p] = "err"
        /\ ops[p] = <<>>
        /\ Components(Root) \notin dirs

(***************************************************************************)
(* Read errors during a listing: property checked under SpecListErr.       *)
(***************************************************************************)
\* the directories at most depth levels below the root
Levels(depth) == {k \in dirs : IsUnder(RootKey, k) /\ Len(k) <= Len(RootKey) + depth}

\* the directories the listing of p has to read: root, hosts and owners, and
\* for the worktree listing the repositories too
ReadBy(p) == IF call[p].cmd = "list" THEN Levels(2) ELSE Levels(3)

\* C27: a failure to read a directory at any level of the listing descent
\* (root, host, owner or repository level) makes the whole listing return
\* that error: whenever one of the directories a listing has to read cannot
\* be read, the listing returns an error.
C27_ReadErrorFailsListing ==
    \A p \in Procs :
        (ListingDone(p) /\ ReadBy(p) \cap noread # {})
            => res[p] = "err" /\ out[p].err = "io"

\* a worktree listing failed on a repository directory that cannot be read,
\* after it printed the worktree of the repository under another host
C27_Witness ==
    \E p \in Procs :
        /\ ListingDone(p)
        /\ call[p].cmd = "list_worktrees"
        /\ noread = {RepoKey(S_github)}
        /\ res[p] = "err"
        /\ out[p].err = "io"
        /\ out[p].lines # {}

(***************************************************************************)
(* The recovery of create and the repositories that were there before.     *)
(***************************************************************************)
\* the bare repository of invocation p
BareOf(p) == Components(loc[p].bare_repo_path)

\* create invocation p is running on a bare repository that was there, could
\* be opened and held refs when p was invoked: p has not created the
\* repository itself, and what it did so far has not changed it
OnEarlierRepo(p) ==
    /\ call[p].cmd = "create"
    /\ pc[p] \notin {"idle", "done"}
    /\ \A i \in DOMAIN ops[p] : ops[p][i] = "add_worktree"
    /\ BareOf(p) \in DOMAIN repos
    /\ repos[BareOf(p)].refs # {}

\* every ref of the repository at k is still there and points at the same commit
KeepsRefs(k) ==
    /\ k \in DOMAIN repos'
    /\ \A b \in repos[k].refs : b \in repos'[k].refs /\ repos'[k].tip[b] = repos[k].tip[b]

\* C28: create deletes bare_path only when the bare repository there is
\* corrupt or empty: no step of a create invocation deletes a bare repository
\* that could be opened and held refs when the invocation began, or takes a
\* ref away from it, whatever made the worktree creation fail.
C28_ValidRepoSurvives ==
    [][\A p \in Procs : OnEarlierRepo(p) => KeepsRefs(BareOf(p))]_vars

\* the worktrees registered with the bare repository at k whose directory,
\* a child of the repository directory named after the worktree, is on the
\* disk d
WorktreesOn(d, r, k) ==
    IF k \in DOMAIN r THEN {w \in r[k].wts : ParentOf(k) \o <<w.name>> \in d} ELSE {}

\* C29: after any sequence of create invocations on one repository with
\* different worktree names, every worktree directory an earlier invocation
\* created is still registered with the bare repository at repo_dir/.git: no
\* step of a create invocation leaves the directory of a registered worktree
\* on the disk while the repository it is registered with is deleted or
\* replaced by one that does not know it.
C29_WorktreesStayRegistered ==
    [][\A p \in Procs :
          call[p].cmd = "create"
              => \A w \in WorktreesOn(dirs, repos, BareOf(p)) :
                    ParentOf(BareOf(p)) \o <<w.name>> \in dirs'
                        => w \in WorktreesOn(dirs', repos', BareOf(p))]_vars

(***************************************************************************)
(* switch and list leave the disk alone.                                   *)
(***************************************************************************)
\* invocation p runs a switch or a listing in this step
RunsReadCommand(p) ==
    /\ pc[p] = "idle"
    /\ pc'[p] = "done"
    /\ call'[p].cmd \in {"switch", "list", "list_worktrees"}

\* C30: switch and list (repository listing and worktree listing) are
\* read-only: in every outcome, success or error, the step that runs one of
\* them leaves every directory, file and repository as it was.
C30_ReadCommandsTouchNothing ==
    [][\A p \in Procs : RunsReadCommand(p) => UNCHANGED <<dirs, files, repos>>]_vars

\* a switch failed and a disk with repositories on it is there
C30_Witness ==
    \E p \in Procs :
        /\ pc[p] = "done"
        /\ call[p].cmd = "switch"
        /\ res[p] = "err"
        /\ DOMAIN repos # {}

====
